---- MODULE Spec2Model ----
(***************************************************************************)
(* Model of the bwt-blitz-ui compression core: the Burrows-Wheeler,        *)
(* Move-to-Front and Run-Length transforms (src/algorithms/bwt.js, mtf.js, *)
(* rle.js), the pipeline orchestrator (pipeline.js) and the BWTJS1         *)
(* container codec (serialization.js).  Byte arrays are sequences of       *)
(* 0..255; JavaScript's 0-based index i is position i + 1 of a sequence.   *)
(***************************************************************************)
EXTENDS Integers, Sequences, FiniteSets, TLC

VARIABLES
  \* the call under check: where it stands, its input, what the encoder
  \* returned, the arguments and the result of the last call
  pc, bytes, enc, args, res,
  \* the state of the App component, the calls that are waiting on a
  \* promise, and how many such calls were started
  compressionResult, decompressedResult, isProcessing, inputType, pending, calls,
  \* the browser's storage, the clock, and what was last saved under each key
  localStorage, clock, lastSaved

appVars == <<compressionResult, decompressedResult, isProcessing, inputType, pending, calls>>

storageVars == <<localStorage, clock, lastSaved>>

vars == <<pc, bytes, enc, args, res, appVars, storageVars>>

(* ------------------------------ bounds --------------------------------- *)

\* longest input byte sequence of the transform and pipeline checks
MaxLen == 3

\* most runs an input of the run-length checks is built from
MaxRuns == 2

\* longest payload handed to the container codec
MaxPayload == 2

\* longest byte sequence handed to rleDecode as it is
MaxEncoded == 4

\* largest of the consecutive sizes handed to the statistics
MaxSize == 8

\* most bytes beyond 256 an array of the long-array checks has
MaxExcess == 1

\* most handler calls of the App component that are started
MaxCalls == 3

\* most calls of saveToLocalStorage that are started, and the last
\* millisecond the clock reaches
MaxSaves == 2
MaxClock == 1

\* the byte values inputs are drawn from: both ends of the range, the RLE
\* escape byte and two ordinary values
ByteVals == {0, 1, 65, 255}

\* run lengths of the run-length inputs: around the 255 cap of one run, and
\* the 45 that a run of 300 leaves behind the cap
RunLens == {1, 2, 45, 255, 256}

(* ------------------------------ helpers -------------------------------- *)

NoValue == [none |-> TRUE]

\* bytes[i] of a JavaScript array
At(s, i) == s[i + 1]

Min(S) == CHOOSE m \in S : \A k \in S : m <= k

RECURSIVE SeqsUpTo(_, _)
SeqsUpTo(S, n) ==
  IF n = 0 THEN {<<>>}
  ELSE LET shorter == SeqsUpTo(S, n - 1)
       IN shorter \cup {Append(s, v) : s \in {t \in shorter : Len(t) = n - 1}, v \in S}

\* new Array(k).fill(v)
Fill(v, k) == [j \in 1..k |-> v]

\* a returned value and a thrown Error with its message
Return(v) == [ok |-> TRUE, val |-> v]
Throw(msg) == [ok |-> FALSE, err |-> msg]

(* ------------------------- bwt.js: bwtEncode --------------------------- *)

\* a comparator that would look at the first byte of each rotation only
RotationCompareFirstByte(b, x, y) == At(b, x) - At(b, y)

\* the comparator handed to suffixArray.sort: sign of the first differing
\* byte of the rotations starting at a and b, 0 when the rotations are equal
RotationCompare(b, x, y) ==
  LET n == Len(b)
      diff == {i \in 0..(n - 1) : At(b, (x + i) % n) # At(b, (y + i) % n)}
  IN IF diff = {} THEN 0
     ELSE LET i == Min(diff) IN At(b, (x + i) % n) - At(b, (y + i) % n)

\* Array.prototype.sort is stable: an offset's position is the number of
\* offsets that compare smaller, plus the equal ones that started before it
RotationRank(b, x) ==
  Cardinality({y \in 0..(Len(b) - 1) :
                 \/ RotationCompare(b, y, x) < 0
                 \/ RotationCompare(b, y, x) = 0 /\ y < x})

suffixArray(b) ==
  [i \in 1..Len(b) |-> CHOOSE x \in 0..(Len(b) - 1) : RotationRank(b, x) = i - 1]

bwtEncode(b) ==
  IF Len(b) = 0 THEN [transformed |-> <<>>, primaryIndex |-> 0]
  ELSE LET n == Len(b)
           sa == suffixArray(b)
       IN [transformed  |-> [i \in 1..n |-> At(b, (sa[i] + n - 1) % n)],
           primaryIndex |-> Min({i \in 0..(n - 1) : At(sa, i) = 0})]

(* ------------------------- bwt.js: bwtDecode --------------------------- *)

\* a function on 1..n held as a tuple
AsTuple(f) == f \o <<>>

\* records with a key in lo..hi put in the order of their keys, records with
\* the same key left in the order they had: those of the lower half of the
\* key range, then those of the upper half
RECURSIVE SortByKey(_, _, _)
SortByKey(recs, lo, hi) ==
  IF Len(recs) <= 1 \/ lo >= hi THEN recs
  ELSE LET mid == (lo + hi) \div 2
           Low(r) == r.key <= mid
           High(r) == r.key > mid
       IN SortByKey(SelectSeq(recs, Low), lo, mid)
            \o SortByKey(SelectSeq(recs, High), mid + 1, hi)

\* indexedBytes.sort((a, b) => a.byte - b.byte) is stable: pairs with the
\* same byte keep the order of their indexes
indexedBytes(t) ==
  LET sorted == SortByKey(AsTuple([i \in 1..Len(t) |-> [key |-> t[i], val |-> i - 1]]),
                          0, 255)
  IN AsTuple([i \in 1..Len(t) |-> [byte |-> sorted[i].key, index |-> sorted[i].val]])

\* a store into a Uint8Array keeps the low 8 bits
Uint8(v) == v % 256

\* next[indexedBytes[i].index] = i, with next = new Uint8Array(n): the
\* stored values i in the order of the indexes they are stored at
nextArray(t) ==
  LET ib == indexedBytes(t)
      stores == AsTuple([i \in 1..Len(t) |-> [key |-> ib[i].index, val |-> Uint8(i - 1)]])
      byIndex == SortByKey(stores, 0, Len(t) - 1)
  IN AsTuple([x \in 1..Len(t) |-> byIndex[x].val])

\* one pass of the reconstruction loop
WalkStep(ib, next, currentIndex) ==
  [out |-> <<At(ib, currentIndex).byte>>,
   currentIndex |-> At(next, currentIndex)]

\* k passes of the reconstruction loop from currentIndex: the first half of
\* the passes, then the rest from where the first half stopped
RECURSIVE Walk(_, _, _, _)
Walk(ib, next, currentIndex, k) ==
  IF k = 0 THEN [out |-> <<>>, currentIndex |-> currentIndex]
  ELSE IF k = 1 THEN WalkStep(ib, next, currentIndex)
  ELSE LET first == Walk(ib, next, currentIndex, k \div 2)
           rest == Walk(ib, next, first.currentIndex, k - k \div 2)
       IN [out |-> first.out \o rest.out, currentIndex |-> rest.currentIndex]

\* a decoder that would wrap the first cursor into the array
bwtDecodeWrapping(t, primaryIndex) ==
  IF Len(t) = 0 THEN Return(<<>>)
  ELSE Return(Walk(indexedBytes(t), nextArray(t), primaryIndex % Len(t), Len(t)).out)

\* a decoder that would reject an array whose walk is not back at the first
\* cursor after the last pass
bwtDecodeClosedWalk(t, primaryIndex) ==
  IF Len(t) = 0 THEN Return(<<>>)
  ELSE IF primaryIndex \notin 0..(Len(t) - 1)
       THEN Throw(<<"TypeError">>)
       ELSE LET walked == Walk(indexedBytes(t), nextArray(t), primaryIndex, Len(t))
            IN IF walked.currentIndex = primaryIndex
               THEN Return(walked.out)
               ELSE Throw(<<"corrupted">>)

\* indexedBytes[currentIndex].byte throws a TypeError when currentIndex is no
\* index of the array; only the first cursor can be one
bwtDecode(t, primaryIndex) ==
  IF Len(t) = 0 THEN Return(<<>>)
  ELSE IF primaryIndex \notin 0..(Len(t) - 1)
       THEN Throw(<<"TypeError">>)
       ELSE Return(Walk(indexedBytes(t), nextArray(t), primaryIndex, Len(t)).out)

(* ------------------------------ mtf.js --------------------------------- *)

\* alphabet[i] = i for i in 0..255
IdentityAlphabet == [j \in 1..256 |-> j - 1]

\* the shift loop, for j from position down to 1: alphabet[j] = alphabet[j-1],
\* followed by alphabet[0] = byte
MoveToFrontShiftAll(alphabet, position, byte) ==
  <<byte>> \o SubSeq(alphabet, 1, 255)

\* an update that would exchange the entry at position with the first one
MoveToFrontSwap(alphabet, position, byte) ==
  [alphabet EXCEPT ![1] = byte, ![position + 1] = alphabet[1]]

MoveToFront(alphabet, position, byte) ==
  <<byte>> \o SubSeq(alphabet, 1, position) \o SubSeq(alphabet, position + 2, 256)

\* the scan for the first j with alphabet[j] === byte; position stays 0 when
\* there is none
PositionOf(alphabet, byte) ==
  IF \E j \in 0..255 : At(alphabet, j) = byte
  THEN CHOOSE j \in 0..255 :
         /\ At(alphabet, j) = byte
         /\ \A k \in 0..(j - 1) : At(alphabet, k) # byte
  ELSE 0

\* the passes lo..hi-1 of the encoding loop, started with the given alphabet:
\* the first half of the passes, then the rest on the alphabet they left
RECURSIVE MtfEncodeRange(_, _, _, _)
MtfEncodeRange(b, lo, hi, alphabet) ==
  IF hi <= lo THEN [out |-> <<>>, alphabet |-> alphabet]
  ELSE IF hi = lo + 1
       THEN LET byte == At(b, lo)
                position == PositionOf(alphabet, byte)
            IN [out |-> <<Uint8(position)>>,
                alphabet |-> MoveToFront(alphabet, position, byte)]
       ELSE LET mid == (lo + hi) \div 2
                first == MtfEncodeRange(b, lo, mid, alphabet)
                rest == MtfEncodeRange(b, mid, hi, first.alphabet)
            IN [out |-> first.out \o rest.out, alphabet |-> rest.alphabet]

mtfEncode(b) ==
  IF Len(b) = 0 THEN <<>> ELSE MtfEncodeRange(b, 0, Len(b), IdentityAlphabet).out

RECURSIVE MtfDecodeRange(_, _, _, _)
MtfDecodeRange(e, lo, hi, alphabet) ==
  IF hi <= lo THEN [out |-> <<>>, alphabet |-> alphabet]
  ELSE IF hi = lo + 1
       THEN LET position == At(e, lo)
                byte == At(alphabet, position)
            IN [out |-> <<byte>>,
                alphabet |-> MoveToFront(alphabet, position, byte)]
       ELSE LET mid == (lo + hi) \div 2
                first == MtfDecodeRange(e, lo, mid, alphabet)
                rest == MtfDecodeRange(e, mid, hi, first.alphabet)
            IN [out |-> first.out \o rest.out, alphabet |-> rest.alphabet]

mtfDecode(e) ==
  IF Len(e) = 0 THEN <<>> ELSE MtfDecodeRange(e, 0, Len(e), IdentityAlphabet).out

(* ------------------------------ rle.js --------------------------------- *)

\* the escape byte
ESCAPE == 255

\* the longest run one escape triple carries
MAX_RUN == 255

\* a counting loop that would stop one byte later
RunLengthUpTo256(b, i) ==
  Min({r \in 1..(MAX_RUN + 1) :
         ~(i + r < Len(b) /\ At(b, i + r) = At(b, i) /\ r < MAX_RUN + 1)})

\* the counting loop: the first runLength at which its condition fails
RunLength(b, i) ==
  Min({r \in 1..MAX_RUN :
         ~(i + r < Len(b) /\ At(b, i + r) = At(b, i) /\ r < MAX_RUN)})

\* what one run contributes to the output
EmitRunBare(currentByte, runLength) ==
  IF runLength = 1 THEN <<currentByte>>
  ELSE <<ESCAPE, currentByte, runLength - 1>>

EmitRun(currentByte, runLength) ==
  IF runLength = 1
  THEN IF currentByte = ESCAPE THEN <<ESCAPE, ESCAPE, 0>> ELSE <<currentByte>>
  ELSE <<ESCAPE, currentByte, runLength - 1>>

RECURSIVE RleEncodeFrom(_, _)
RleEncodeFrom(b, i) ==
  IF i >= Len(b) THEN <<>>
  ELSE LET runLength == RunLength(b, i)
       IN EmitRun(At(b, i), runLength) \o RleEncodeFrom(b, i + runLength)

rleEncode(b) == IF Len(b) = 0 THEN <<>> ELSE RleEncodeFrom(b, 0)

\* a decoder that would drop the escape byte of a cut-off escape sequence
RECURSIVE RleDecodeDroppingEscape(_, _)
RleDecodeDroppingEscape(e, i) ==
  IF i >= Len(e) THEN <<>>
  ELSE IF At(e, i) = ESCAPE
       THEN IF i + 2 < Len(e)
            THEN Fill(At(e, i + 1), At(e, i + 2) + 1) \o RleDecodeDroppingEscape(e, i + 3)
            ELSE RleDecodeDroppingEscape(e, i + 1)
       ELSE <<At(e, i)>> \o RleDecodeDroppingEscape(e, i + 1)

RECURSIVE RleDecodeFrom(_, _)
RleDecodeFrom(e, i) ==
  IF i >= Len(e) THEN <<>>
  ELSE IF At(e, i) = ESCAPE /\ i + 2 < Len(e)
       THEN LET nextByte == At(e, i + 1)
                count == At(e, i + 2)
            IN IF nextByte = ESCAPE /\ count = 0
               THEN <<ESCAPE>> \o RleDecodeFrom(e, i + 3)
               ELSE Fill(nextByte, count + 1) \o RleDecodeFrom(e, i + 3)
       ELSE <<At(e, i)>> \o RleDecodeFrom(e, i + 1)

rleDecode(e) == IF Len(e) = 0 THEN <<>> ELSE RleDecodeFrom(e, 0)

(* --------------------------- JavaScript values ------------------------- *)

\* a value is tagged with its typeof; a string is its sequence of code
\* points, an object its key/value pairs in insertion order
Undefined == [t |-> "undefined"]
Null == [t |-> "null"]
Num(n) == [t |-> "number", n |-> n]
Str(s) == [t |-> "string", s |-> s]
Arr(a) == [t |-> "array", a |-> a]
Obj(pairs) == [t |-> "object", o |-> pairs]
Prop(key, value) == [k |-> key, v |-> value]
Bool(b) == [t |-> "boolean", b |-> b]

\* a quotient a / b of two sizes: an integer when exact, else the fraction
Quotient(a, b) ==
  IF a % b = 0 THEN Num(a \div b) ELSE [t |-> "number", num |-> a, den |-> b]

\* q * k for a quotient q and an integer k
Times(q, k) ==
  IF "n" \in DOMAIN q THEN Num(q.n * k) ELSE Quotient(q.num * k, q.den)

\* q <= k: the comparison that would count a ratio of 1
LessOrEqual(q, k) ==
  IF "n" \in DOMAIN q THEN q.n <= k ELSE q.num <= k * q.den

\* q < k for a quotient q of a positive divisor and an integer k
LessThan(q, k) ==
  IF "n" \in DOMAIN q THEN q.n < k ELSE q.num < k * q.den

\* !v is false
Truthy(v) ==
  CASE v.t = "undefined" -> FALSE
    [] v.t = "null" -> FALSE
    [] v.t = "number" -> ("n" \in DOMAIN v) => v.n # 0
    [] v.t = "string" -> v.s # <<>>
    [] OTHER -> TRUE

HasKey(o, key) == o.t = "object" /\ \E i \in 1..Len(o.o) : o.o[i].k = key

\* o.key: undefined when the object has no such property
Get(o, key) ==
  IF HasKey(o, key)
  THEN o.o[CHOOSE i \in 1..Len(o.o) : o.o[i].k = key].v
  ELSE Undefined

\* typeof v === 'number'
IsNumber(v) == v.t = "number"

\* the property names and string constants of the sources
K_originalSize == <<111, 114, 105, 103, 105, 110, 97, 108, 83, 105, 122, 101>>
K_compressedSize == <<99, 111, 109, 112, 114, 101, 115, 115, 101, 100, 83, 105, 122, 101>>
K_compressionRatio == <<99, 111, 109, 112, 114, 101, 115, 115, 105, 111, 110, 82, 97, 116, 105, 111>>
K_pipeline == <<112, 105, 112, 101, 108, 105, 110, 101>>
K_processingTime == <<112, 114, 111, 99, 101, 115, 115, 105, 110, 103, 84, 105, 109, 101>>
K_primaryIndex == <<112, 114, 105, 109, 97, 114, 121, 73, 110, 100, 101, 120>>
K_algorithm == <<97, 108, 103, 111, 114, 105, 116, 104, 109>>
K_version == <<118, 101, 114, 115, 105, 111, 110>>
S_bwt == <<98, 119, 116>>
S_mtf == <<109, 116, 102>>
S_rle == <<114, 108, 101>>
S_none == <<110, 111, 110, 101>>
S_algorithm == <<66, 87, 84, 43, 77, 84, 70, 43, 82, 76, 69>>
S_version == <<49, 46, 48>>

(* ----------------------------- pipeline.js ----------------------------- *)

K_error == <<101, 114, 114, 111, 114>>
K_stages == <<115, 116, 97, 103, 101, 115>>

\* a fallback that would keep the stage list of the regular result
FallbackFullStageList(b, processingTime, message) ==
  [payload |-> b,
   meta |-> Obj(<<Prop(K_originalSize, Num(Len(b))),
                  Prop(K_compressedSize, Num(Len(b))),
                  Prop(K_compressionRatio, Num(1)),
                  Prop(K_pipeline, Arr(<<Str(S_bwt), Str(S_mtf), Str(S_rle)>>)),
                  Prop(K_processingTime, Num(processingTime)),
                  Prop(K_primaryIndex, Num(0)),
                  Prop(K_error, message)>>)]

\* the catch block of compressBytes: the input as payload
Fallback(b, processingTime, message) ==
  [payload |-> b,
   meta |-> Obj(<<Prop(K_originalSize, Num(Len(b))),
                  Prop(K_compressedSize, Num(Len(b))),
                  Prop(K_compressionRatio, Num(1)),
                  Prop(K_pipeline, Arr(<<Str(S_none)>>)),
                  Prop(K_processingTime, Num(processingTime)),
                  Prop(K_primaryIndex, Num(0)),
                  Prop(K_error, message)>>)]

\* processingTime is a difference of two performance.now() readings; thrown
\* is the message of the error a stage throws inside the try block, or
\* undefined when the three stages complete
compressBytes(b, options, processingTime, thrown) ==
  IF Len(b) = 0
  THEN [payload |-> <<>>,
        meta |-> Obj(<<Prop(K_originalSize, Num(0)),
                       Prop(K_compressedSize, Num(0)),
                       Prop(K_compressionRatio, Num(1)),
                       Prop(K_pipeline, Arr(<<>>)),
                       Prop(K_processingTime, Num(processingTime)),
                       Prop(K_primaryIndex, Num(0))>>)]
  ELSE IF thrown.t # "undefined" THEN Fallback(b, processingTime, thrown)
  ELSE LET bwtResult == bwtEncode(b)
           currentBytes == rleEncode(mtfEncode(bwtResult.transformed))
           originalSize == Len(b)
           compressedSize == Len(currentBytes)
       IN [payload |-> currentBytes,
           meta |-> Obj(<<Prop(K_originalSize, Num(originalSize)),
                          Prop(K_compressedSize, Num(compressedSize)),
                          Prop(K_compressionRatio,
                               IF originalSize > 0
                               THEN Quotient(compressedSize, originalSize)
                               ELSE Num(1)),
                          Prop(K_pipeline, Arr(<<Str(S_bwt), Str(S_mtf), Str(S_rle)>>)),
                          Prop(K_processingTime, Num(processingTime)),
                          Prop(K_primaryIndex, Num(bwtResult.primaryIndex)),
                          Prop(K_algorithm, Str(S_algorithm)),
                          Prop(K_version, Str(S_version))>>)]

\* the element position a value selects when used as an array subscript: a
\* number selects itself, a one-digit string its digit, anything else none
ArrayIndex(v) ==
  CASE v.t = "number" -> v.n
    [] v.t = "string" /\ Len(v.s) = 1 /\ v.s[1] \in 48..57 -> v.s[1] - 48
    [] OTHER -> -1

\* a membership test that would look at the first element only
IncludesFirst(pipeline, name) ==
  /\ pipeline.t = "array"
  /\ Len(pipeline.a) > 0
  /\ pipeline.a[1] = Str(name)

\* pipeline.includes(name): Array.prototype.includes on an array,
\* String.prototype.includes on a string
Includes(pipeline, name) ==
  IF pipeline.t = "array"
  THEN \E i \in 1..Len(pipeline.a) : pipeline.a[i] = Str(name)
  ELSE \E i \in 1..(Len(pipeline.s) + 1) :
          /\ i + Len(name) - 1 <= Len(pipeline.s)
          /\ SubSeq(pipeline.s, i, i + Len(name) - 1) = name

\* the catch of decompressBytes rethrows with a prefix
Rethrow(prefix, r) == IF r.ok THEN r ELSE [ok |-> FALSE, err |-> <<prefix>> \o r.err]

\* the metadata test in front of the try block
InvalidMetadataLax(meta) == ~Truthy(meta)

InvalidMetadata(meta) == ~Truthy(meta) \/ ~Truthy(Get(meta, K_pipeline))

\* the guard in front of the inverse BWT
MissingPrimaryIndexLax(meta) == Get(meta, K_primaryIndex).t = "undefined"

MissingPrimaryIndex(meta) == ~IsNumber(Get(meta, K_primaryIndex))

DecodeStages(payload, meta) ==
  LET pipeline == Get(meta, K_pipeline)
  IN IF pipeline.t \notin {"array", "string"}
     THEN Throw(<<"TypeError">>)
     ELSE LET afterRle == IF Includes(pipeline, S_rle) THEN rleDecode(payload) ELSE payload
              afterMtf == IF Includes(pipeline, S_mtf) THEN mtfDecode(afterRle) ELSE afterRle
          IN IF Includes(pipeline, S_bwt)
             THEN IF MissingPrimaryIndex(meta)
                  THEN Throw(<<"Missing primaryIndex for BWT decompression">>)
                  ELSE bwtDecode(afterMtf, ArrayIndex(Get(meta, K_primaryIndex)))
             ELSE Return(afterMtf)

decompressBytes(payload, meta) ==
  IF Len(payload) = 0 THEN Return(<<>>)
  ELSE IF InvalidMetadata(meta)
       THEN Throw(<<"Invalid metadata for decompression">>)
       ELSE Rethrow("Decompression failed: ", DecodeStages(payload, meta))

getCompressionStats(originalSize, compressedSize) ==
  LET ratio == IF originalSize > 0 THEN Quotient(compressedSize, originalSize) ELSE Num(1)
      reduction == IF originalSize > 0
                   THEN Times(Quotient(originalSize - compressedSize, originalSize), 100)
                   ELSE Num(0)
  IN [originalSize |-> Num(originalSize),
      compressedSize |-> Num(compressedSize),
      compressionRatio |-> ratio,
      reductionPercent |-> reduction,
      spaceSaved |-> Num(originalSize - compressedSize),
      isEffective |-> Bool(LessThan(ratio, 1))]

(* ------------------- serialization.js: serializeCompressed ------------- *)

\* "BWTJS1\0"
MAGIC_HEADER == <<66, 87, 84, 74, 83, 49, 0>>

K_originalFilename == <<111, 114, 105, 103, 105, 110, 97, 108, 70, 105, 108, 101, 110, 97, 109, 101>>
K_mimeType == <<109, 105, 109, 101, 84, 121, 112, 101>>
K_encoding == <<101, 110, 99, 111, 100, 105, 110, 103>>
K_createdAt == <<99, 114, 101, 97, 116, 101, 100, 65, 116>>
S_untitled == <<117, 110, 116, 105, 116, 108, 101, 100>>
S_octetStream == <<97, 112, 112, 108, 105, 99, 97, 116, 105, 111, 110, 47, 111, 99, 116, 101, 116, 45, 115, 116, 114, 101, 97, 109>>
S_binary == <<98, 105, 110, 97, 114, 121>>

\* the concatenation of the sequences parts[lo..hi]
RECURSIVE Concat(_, _, _)
Concat(parts, lo, hi) ==
  IF hi < lo THEN <<>>
  ELSE IF hi = lo THEN parts[lo]
  ELSE LET mid == (lo + hi) \div 2
       IN Concat(parts, lo, mid) \o Concat(parts, mid + 1, hi)

Flatten(parts) == Concat(parts, 1, Len(parts))

\* parts joined by commas
RECURSIVE JoinComma(_)
JoinComma(parts) ==
  IF Len(parts) = 0 THEN <<>>
  ELSE IF Len(parts) = 1 THEN parts[1]
  ELSE parts[1] \o <<44>> \o JoinComma(Tail(parts))

HexDigit(d) == IF d < 10 THEN 48 + d ELSE 87 + d

\* a code unit copied as it is
JsonEscapeNone(c) == <<c>>

\* JSON.stringify's QuoteJSONString, one code unit at a time
JsonEscape(c) ==
  CASE c = 34 -> <<92, 34>>
    [] c = 92 -> <<92, 92>>
    [] c = 8 -> <<92, 98>>
    [] c = 9 -> <<92, 116>>
    [] c = 10 -> <<92, 110>>
    [] c = 12 -> <<92, 102>>
    [] c = 13 -> <<92, 114>>
    [] c < 32 /\ c \notin {8, 9, 10, 12, 13} ->
         <<92, 117, 48, 48, HexDigit(c \div 16), HexDigit(c % 16)>>
    [] OTHER -> <<c>>

JsonString(str) == <<34>> \o Flatten([i \in 1..Len(str) |-> JsonEscape(str[i])]) \o <<34>>

RECURSIVE Digits(_)
Digits(n) == IF n < 10 THEN <<48 + n>> ELSE Digits(n \div 10) \o <<48 + (n % 10)>>

\* Number::toString of an integer
JsonNumber(n) == IF n < 0 THEN <<45>> \o Digits(0 - n) ELSE Digits(n)

S_null == <<110, 117, 108, 108>>
S_true == <<116, 114, 117, 101>>
S_false == <<102, 97, 108, 115, 101>>

\* JSON.stringify: the text of a value; properties whose value is undefined
\* are left out of an object, and an undefined array element reads null
RECURSIVE JsonStringify(_)
JsonStringify(v) ==
  CASE v.t = "number" -> JsonNumber(v.n)
    [] v.t = "string" -> JsonString(v.s)
    [] v.t = "boolean" -> IF v.b THEN S_true ELSE S_false
    [] v.t = "array" ->
         <<91>> \o JoinComma([i \in 1..Len(v.a) |->
                               IF v.a[i].t = "undefined" THEN S_null
                               ELSE JsonStringify(v.a[i])]) \o <<93>>
    [] v.t = "object" ->
         LET kept == SelectSeq(v.o, LAMBDA p : p.v.t # "undefined")
         IN <<123>> \o JoinComma([i \in 1..Len(kept) |->
                                   JsonString(kept[i].k) \o <<58>> \o JsonStringify(kept[i].v)])
                    \o <<125>>
    [] OTHER -> S_null

\* TextEncoder: the UTF-8 bytes of one code point below U+0800
Utf8Bytes(c) ==
  IF c < 128 THEN <<c>> ELSE <<192 + (c \div 64), 128 + (c % 64)>>

TextEncode(str) == Flatten([i \in 1..Len(str) |-> Utf8Bytes(str[i])])

\* new Uint32Array([n]) viewed as bytes: the four bytes of n modulo 2^32 in
\* the byte order of the platform
Uint32NativeBytes(n, littleEndian) ==
  LET be == <<(n \div 16777216) % 256, (n \div 65536) % 256, (n \div 256) % 256, n % 256>>
  IN IF littleEndian THEN <<be[4], be[3], be[2], be[1]>> ELSE be

Reverse(q) == [i \in 1..Len(q) |-> q[Len(q) + 1 - i]]

\* the length field: the native bytes, reversed when isLittleEndian()
LengthField(n, littleEndian) ==
  LET native == Uint32NativeBytes(n, littleEndian)
  IN IF littleEndian THEN Reverse(native) ELSE native

\* obj with key set to value: an existing property keeps its place
SetProp(obj, key, value) ==
  IF \E i \in 1..Len(obj) : obj[i].k = key
  THEN [i \in 1..Len(obj) |-> IF obj[i].k = key THEN Prop(key, value) ELSE obj[i]]
  ELSE Append(obj, Prop(key, value))

\* { ...target, ...source }: the properties of source laid over target
RECURSIVE Spread(_, _)
Spread(target, source) ==
  IF Len(source) = 0 THEN target
  ELSE Spread(SetProp(target, Head(source).k, Head(source).v), Tail(source))

\* a || b
OrElse(a, b) == IF Truthy(a) THEN a ELSE b

\* the defaults alone, with nothing of the caller laid over them
FullMetaDefaultsOnly(meta, now) ==
  Obj(<<Prop(K_originalFilename, OrElse(Get(meta, K_originalFilename), Str(S_untitled))),
        Prop(K_mimeType, OrElse(Get(meta, K_mimeType), Str(S_octetStream))),
        Prop(K_originalSize, OrElse(Get(meta, K_originalSize), Num(0))),
        Prop(K_pipeline, OrElse(Get(meta, K_pipeline),
                                Arr(<<Str(S_bwt), Str(S_mtf), Str(S_rle)>>))),
        Prop(K_encoding, OrElse(Get(meta, K_encoding), Str(S_binary))),
        Prop(K_createdAt, OrElse(Get(meta, K_createdAt), Str(now)))>>)

\* a merge that would lay the defaulted fields over those of the caller
FullMetaDefaultsLast(meta, now) == Obj(Spread(meta.o, FullMetaDefaultsOnly(meta, now).o))

\* fullMeta: the six defaulted fields, then ...meta
FullMeta(meta, now) == Obj(Spread(FullMetaDefaultsOnly(meta, now).o, meta.o))

\* the blob with a delimiter byte between metadata and payload
LayoutDelimited(lengthBytes, metadataBytes, payloadBytes) ==
  MAGIC_HEADER \o lengthBytes \o metadataBytes \o <<0>> \o payloadBytes

\* serialized: header, length, metadata and payload copied end to end
Layout(lengthBytes, metadataBytes, payloadBytes) ==
  MAGIC_HEADER \o lengthBytes \o metadataBytes \o payloadBytes

\* now is new Date().toISOString(); property access on a meta that is null
\* or undefined throws inside the try block
serializeCompressed(meta, payloadBytes, now, littleEndian) ==
  IF meta.t \in {"null", "undefined"}
  THEN Throw(<<"Serialization failed: ", "TypeError">>)
  ELSE LET metadataBytes == TextEncode(JsonStringify(FullMeta(meta, now)))
       IN Return(Layout(LengthField(Len(metadataBytes), littleEndian),
                        metadataBytes, payloadBytes))

(* ------------------- serialization.js: parseCompressedFile ------------- *)

IsContinuation(b) == b \in 128..191
IsLead2(b) == b \in 194..223

\* TextDecoder.decode for the one- and two-byte forms of UTF-8: a lead byte
\* with its continuation byte is one code point, any other byte above 0x7F
\* is replaced by U+FFFD
TextDecode(bs) ==
  LET n == Len(bs)
      consumed(i) == i > 1 /\ IsContinuation(bs[i]) /\ IsLead2(bs[i - 1])
      starts == SelectSeq([i \in 1..n |-> i], LAMBDA i : ~consumed(i))
  IN AsTuple([k \in 1..Len(starts) |->
                LET i == starts[k]
                IN IF bs[i] < 128 THEN bs[i]
                   ELSE IF IsLead2(bs[i]) /\ i < n /\ IsContinuation(bs[i + 1])
                        THEN (bs[i] - 192) * 64 + (bs[i + 1] - 128)
                        ELSE 65533])

\* the one element of a set of one element: binds a value that is computed
\* once to a name
The(S) == CHOOSE v \in S : TRUE

Fail == [ok |-> FALSE]
Parsed(v, next) == [ok |-> TRUE, val |-> v, next |-> next]

JsonWhitespace == {32, 9, 10, 13}
JsonDigits == 48..57

\* the first position from i on that holds no whitespace
RECURSIVE SkipWs(_, _)
SkipWs(s, i) ==
  IF i > Len(s) \/ s[i] \notin JsonWhitespace THEN i ELSE SkipWs(s, i + 1)

\* the first position from i on that holds no digit
RECURSIVE DigitsEnd(_, _)
DigitsEnd(s, i) ==
  IF i > Len(s) \/ s[i] \notin JsonDigits THEN i ELSE DigitsEnd(s, i + 1)

RECURSIVE DigitsValue(_, _, _)
DigitsValue(s, lo, hi) ==
  IF hi < lo THEN 0 ELSE DigitsValue(s, lo, hi - 1) * 10 + (s[hi] - 48)

HexValue(c) ==
  CASE c \in 48..57 -> c - 48
    [] c \in 65..70 -> c - 55
    [] c \in 97..102 -> c - 87
    [] OTHER -> -1

\* the character a backslash escape stands for, -1 for an unknown one
Unescaped(c) ==
  CASE c = 34 -> 34
    [] c = 92 -> 92
    [] c = 47 -> 47
    [] c = 98 -> 8
    [] c = 102 -> 12
    [] c = 110 -> 10
    [] c = 114 -> 13
    [] c = 116 -> 9
    [] OTHER -> -1

\* the characters of a string literal from position j up to its closing quote
RECURSIVE ParseChars(_, _)
ParseChars(s, j) ==
  IF j > Len(s) THEN Fail
  ELSE IF s[j] = 34 THEN Parsed(<<>>, j + 1)
  ELSE IF s[j] < 32 THEN Fail
  ELSE IF s[j] = 92
       THEN IF j + 1 > Len(s) THEN Fail
            ELSE IF s[j + 1] = 117
                 THEN IF j + 5 > Len(s) \/ \E k \in 2..5 : HexValue(s[j + k]) = -1
                      THEN Fail
                      ELSE LET rest == ParseChars(s, j + 6)
                               c == HexValue(s[j + 2]) * 4096 + HexValue(s[j + 3]) * 256
                                      + HexValue(s[j + 4]) * 16 + HexValue(s[j + 5])
                           IN IF rest.ok THEN Parsed(<<c>> \o rest.val, rest.next) ELSE Fail
                 ELSE IF Unescaped(s[j + 1]) = -1 THEN Fail
                      ELSE LET rest == ParseChars(s, j + 2)
                           IN IF rest.ok
                              THEN Parsed(<<Unescaped(s[j + 1])>> \o rest.val, rest.next)
                              ELSE Fail
       ELSE LET rest == ParseChars(s, j + 1)
            IN IF rest.ok THEN Parsed(<<s[j]>> \o rest.val, rest.next) ELSE Fail

StartsWith(s, i, word) ==
  i + Len(word) - 1 <= Len(s) /\ SubSeq(s, i, i + Len(word) - 1) = word

\* an integer literal at position i; a leading zero ends the literal
ParseNumber(s, i) ==
  LET neg == s[i] = 45
      first == IF neg THEN i + 1 ELSE i
      last == IF first <= Len(s) /\ s[first] = 48 THEN first + 1 ELSE DigitsEnd(s, first)
  IN IF last = first THEN Fail
     ELSE Parsed(Num(IF neg THEN 0 - DigitsValue(s, first, last - 1)
                            ELSE DigitsValue(s, first, last - 1)), last)

RECURSIVE ParseValue(_, _)
RECURSIVE ParseElements(_, _, _)
RECURSIVE ParseMembers(_, _, _)

\* the JSON value that starts at position i
ParseValue(s, i) ==
  IF i > Len(s) THEN Fail
  ELSE CASE s[i] = 34 ->
              LET str == ParseChars(s, i + 1)
              IN IF str.ok THEN Parsed(Str(str.val), str.next) ELSE Fail
         [] s[i] = 45 \/ s[i] \in JsonDigits -> ParseNumber(s, i)
         [] s[i] = 91 ->
              LET j == SkipWs(s, i + 1)
              IN IF j <= Len(s) /\ s[j] = 93 THEN Parsed(Arr(<<>>), j + 1)
                 ELSE ParseElements(s, j, <<>>)
         [] s[i] = 123 ->
              LET j == SkipWs(s, i + 1)
              IN IF j <= Len(s) /\ s[j] = 125 THEN Parsed(Obj(<<>>), j + 1)
                 ELSE ParseMembers(s, j, <<>>)
         [] StartsWith(s, i, S_true) -> Parsed(Bool(TRUE), i + 4)
         [] StartsWith(s, i, S_false) -> Parsed(Bool(FALSE), i + 5)
         [] StartsWith(s, i, S_null) -> Parsed(Null, i + 4)
         [] OTHER -> Fail

\* the elements of an array from position i, after those in done
ParseElements(s, i, done) ==
  LET element == ParseValue(s, i)
  IN IF ~element.ok THEN Fail
     ELSE LET j == SkipWs(s, element.next)
              all == Append(done, element.val)
          IN IF j > Len(s) THEN Fail
             ELSE IF s[j] = 93 THEN Parsed(Arr(all), j + 1)
             ELSE IF s[j] = 44 THEN ParseElements(s, SkipWs(s, j + 1), all)
             ELSE Fail

\* the members of an object from position i, after those in done; a repeated
\* key takes the later value
ParseMembers(s, i, done) ==
  IF i > Len(s) \/ s[i] # 34 THEN Fail
  ELSE LET key == ParseChars(s, i + 1)
       IN IF ~key.ok THEN Fail
          ELSE LET colon == SkipWs(s, key.next)
               IN IF colon > Len(s) \/ s[colon] # 58 THEN Fail
                  ELSE LET value == ParseValue(s, SkipWs(s, colon + 1))
                       IN IF ~value.ok THEN Fail
                          ELSE LET j == SkipWs(s, value.next)
                                   all == SetProp(done, key.val, value.val)
                               IN IF j > Len(s) THEN Fail
                                  ELSE IF s[j] = 125 THEN Parsed(Obj(all), j + 1)
                                  ELSE IF s[j] = 44
                                       THEN ParseMembers(s, SkipWs(s, j + 1), all)
                                       ELSE Fail

\* JSON.parse: one value with whitespace around it, or a SyntaxError
JsonParse(s) ==
  LET value == ParseValue(s, SkipWs(s, 1))
  IN IF value.ok /\ SkipWs(s, value.next) = Len(s) + 1
     THEN Return(value.val)
     ELSE Throw(<<"SyntaxError">>)

\* a 32-bit unsigned number as its two 16-bit halves, so that the values
\* from 2^31 to 2^32-1 stay exact
Uint32(hi, lo) == [hi |-> hi, lo |-> lo]

\* the four bytes read in the platform's order without the byte swap
ReadUint32Native(b4, littleEndian) ==
  IF littleEndian
  THEN Uint32(b4[4] * 256 + b4[3], b4[2] * 256 + b4[1])
  ELSE Uint32(b4[1] * 256 + b4[2], b4[3] * 256 + b4[4])

\* new Uint32Array(buffer)[0] of the four bytes, reversed when
\* isLittleEndian(): the platform reads its own byte order
ReadUint32(b4, littleEndian) ==
  LET native == IF littleEndian THEN Reverse(b4) ELSE b4
  IN IF littleEndian
     THEN Uint32(native[4] * 256 + native[3], native[2] * 256 + native[1])
     ELSE Uint32(native[1] * 256 + native[2], native[3] * 256 + native[4])

\* length < offset + n, for a length and an offset below 2^31
LessThanSum(length, offset, n) ==
  n.hi >= 32768 \/ length - offset < n.hi * 65536 + n.lo

\* the header test that forgets the last byte
MagicMismatchShort(blob) ==
  \E i \in 1..(Len(MAGIC_HEADER) - 1) : blob[i] # MAGIC_HEADER[i]

\* the loop over the header: some byte differs
MagicMismatch(blob) ==
  \E i \in 1..Len(MAGIC_HEADER) : blob[i] # MAGIC_HEADER[i]

ParseError(msg) == Throw(<<"File parsing failed: ", msg>>)

parseCompressedFile(blob, littleEndian) ==
  IF Len(blob) < Len(MAGIC_HEADER)
  THEN ParseError("File too short to be a valid compressed file")
  ELSE IF MagicMismatch(blob)
  THEN ParseError("Invalid file format: magic header mismatch")
  ELSE IF Len(blob) < Len(MAGIC_HEADER) + 4
  THEN ParseError("File truncated: missing metadata length")
  ELSE LET offset == Len(MAGIC_HEADER) + 4
           metadataLength ==
             ReadUint32(SubSeq(blob, Len(MAGIC_HEADER) + 1, offset), littleEndian)
       IN IF LessThanSum(Len(blob), offset, metadataLength)
          THEN ParseError("File truncated: missing metadata")
          ELSE LET length == metadataLength.hi * 65536 + metadataLength.lo
                   metadataBytes == SubSeq(blob, offset + 1, offset + length)
               IN The({IF ~parsed.ok THEN ParseError("SyntaxError")
                       ELSE Return([meta |-> parsed.val,
                                    payloadUint8Array |->
                                      SubSeq(blob, offset + length + 1, Len(blob))]) :
                         parsed \in {JsonParse(metadataJson) :
                                       metadataJson \in {TextDecode(metadataBytes)}}})

(* ------------------------ io.js: text and files ------------------------ *)

\* 'text', 'file', 'text.txt', 'utf-8', 'text/plain'
S_text == <<116, 101, 120, 116>>
S_file == <<102, 105, 108, 101>>
S_textTxt == <<116, 101, 120, 116, 46, 116, 120, 116>>
S_utf8 == <<117, 116, 102, 45, 56>>
S_textPlain == <<116, 101, 120, 116, 47, 112, 108, 97, 105, 110>>

textToBytes(text) == TextEncode(text)

bytesToText(b) == TextDecode(b)

\* FileReader: onload resolves with the content, onerror rejects
readFileAsBytes(file) ==
  IF file.readable THEN Return(file.content) ELSE Throw(<<"Failed to read file">>)

compressFromText(text, filename, processingTime, now, littleEndian) ==
  LET compressed == compressBytes(textToBytes(text), Undefined, processingTime, Undefined)
      fullMeta == Obj(Spread(compressed.meta.o,
                             <<Prop(K_originalFilename, Str(filename)),
                               Prop(K_mimeType, Str(S_textPlain)),
                               Prop(K_encoding, Str(S_utf8))>>))
  IN serializeCompressed(fullMeta, compressed.payload, now, littleEndian)

\* const { meta, payloadUint8Array } = await parseCompressedFile(blob) and
\* const decompressedBytes = decompressBytes(...): each is evaluated once and
\* bound to its value
decompressToText(blob, littleEndian) ==
  The({IF ~parsed.ok THEN parsed
       ELSE The({IF ~decompressedBytes.ok THEN decompressedBytes
                 ELSE Return([text |-> bytesToText(decompressedBytes.val),
                              meta |-> parsed.val.meta]) :
                   decompressedBytes \in {decompressBytes(parsed.val.payloadUint8Array,
                                                          parsed.val.meta)}}) :
         parsed \in {parseCompressedFile(blob, littleEndian)}})

compressFromFile(file, processingTime, now, littleEndian) ==
  LET read == readFileAsBytes(file)
  IN IF ~read.ok THEN read
     ELSE LET compressed == compressBytes(read.val, Undefined, processingTime, Undefined)
              fullMeta == Obj(Spread(compressed.meta.o,
                                     <<Prop(K_originalFilename, Str(file.name)),
                                       Prop(K_mimeType,
                                            OrElse(Str(file.type), Str(S_octetStream))),
                                       Prop(K_encoding, Str(S_binary))>>))
              blob == serializeCompressed(fullMeta, compressed.payload, now, littleEndian)
          IN IF ~blob.ok THEN blob
             ELSE Return([blob |-> blob.val, meta |-> fullMeta])

decompressFileBlob(blob, littleEndian) ==
  The({IF ~parsed.ok THEN parsed
       ELSE The({IF ~fileBytes.ok THEN fileBytes
                 ELSE Return([fileBytes |-> fileBytes.val, meta |-> parsed.val.meta]) :
                   fileBytes \in {decompressBytes(parsed.val.payloadUint8Array,
                                                  parsed.val.meta)}}) :
         parsed \in {parseCompressedFile(blob, littleEndian)}})

(* ------------------------- io.js: localStorage ------------------------- *)

StorageInitial ==
  /\ localStorage = <<>>
  /\ clock = 0
  /\ lastSaved = <<>>

\* 'bwt_compressed_' and the property names of a stored item
S_storagePrefix == <<98, 119, 116, 95, 99, 111, 109, 112, 114, 101, 115, 115, 101, 100, 95>>
K_data == <<100, 97, 116, 97>>
K_meta == <<109, 101, 116, 97>>
K_savedAt == <<115, 97, 118, 101, 100, 65, 116>>
K_size == <<115, 105, 122, 101>>

\* the base64 digit of a six-bit value, and the value of a digit
Base64Digit(v) ==
  IF v < 26 THEN 65 + v
  ELSE IF v < 52 THEN 97 + (v - 26)
  ELSE IF v < 62 THEN 48 + (v - 52)
  ELSE IF v = 62 THEN 43 ELSE 47

Base64Value(c) ==
  IF c \in 65..90 THEN c - 65
  ELSE IF c \in 97..122 THEN c - 97 + 26
  ELSE IF c \in 48..57 THEN c - 48 + 52
  ELSE IF c = 43 THEN 62 ELSE 63

\* btoa of the string with one character per byte: four digits for three
\* bytes, '=' where the last group has fewer
RECURSIVE bytesToBase64(_)
bytesToBase64(b) ==
  IF Len(b) = 0 THEN <<>>
  ELSE IF Len(b) = 1
       THEN <<Base64Digit(b[1] \div 4), Base64Digit((b[1] % 4) * 16), 61, 61>>
  ELSE IF Len(b) = 2
       THEN <<Base64Digit(b[1] \div 4),
              Base64Digit((b[1] % 4) * 16 + b[2] \div 16),
              Base64Digit((b[2] % 16) * 4), 61>>
  ELSE <<Base64Digit(b[1] \div 4),
         Base64Digit((b[1] % 4) * 16 + b[2] \div 16),
         Base64Digit((b[2] % 16) * 4 + b[3] \div 64),
         Base64Digit(b[3] % 64)>> \o bytesToBase64(SubSeq(b, 4, Len(b)))

\* atob and the character codes of what it returns: three bytes for four
\* digits, fewer where the group ends in '='
RECURSIVE base64ToBytes(_)
base64ToBytes(base64) ==
  IF Len(base64) < 4 THEN <<>>
  ELSE LET v1 == Base64Value(base64[1])
           v2 == Base64Value(base64[2])
           v3 == Base64Value(base64[3])
           v4 == Base64Value(base64[4])
           first == <<v1 * 4 + v2 \div 16>>
           second == IF base64[3] = 61 THEN <<>> ELSE <<(v2 % 16) * 16 + v3 \div 4>>
           third == IF base64[3] = 61 \/ base64[4] = 61 THEN <<>>
                    ELSE <<(v3 % 4) * 64 + v4>>
       IN first \o second \o third \o base64ToBytes(SubSeq(base64, 5, Len(base64)))

\* new Date().toISOString() at ms milliseconds past the start of a second,
\* and the milliseconds new Date(string) counts from that start for such a
\* string
S_secondStarted == <<50, 48, 50, 52, 45, 48, 49, 45, 48, 49, 84, 48, 48, 58, 48, 48, 58, 48, 48, 46>>

toISOString(ms) ==
  S_secondStarted \o <<48 + (ms \div 100), 48 + ((ms \div 10) % 10), 48 + (ms % 10), 90>>

DateOf(string) ==
  (string[21] - 48) * 100 + (string[22] - 48) * 10 + (string[23] - 48)

\* localStorage.getItem: the value stored under the key, or null
getItem(storage, key) ==
  IF \E i \in 1..Len(storage) : storage[i].key = key
  THEN Str(storage[CHOOSE i \in 1..Len(storage) : storage[i].key = key].value)
  ELSE Null

\* localStorage.setItem: the value of a key that is there is replaced; a new
\* key is put where the browser's iteration order has it, which no standard
\* fixes
setItem(storage, key, value, position) ==
  IF \E i \in 1..Len(storage) : storage[i].key = key
  THEN [i \in 1..Len(storage) |->
          IF storage[i].key = key THEN [key |-> key, value |-> value] ELSE storage[i]]
  ELSE SubSeq(storage, 1, position) \o <<[key |-> key, value |-> value]>>
         \o SubSeq(storage, position + 1, Len(storage))

removeItem(storage, key) == SelectSeq(storage, LAMBDA entry : entry.key # key)

\* String.prototype.replace(pattern, ''): the first occurrence is taken out
ReplaceFirst(string, pattern) ==
  LET starts == {i \in 1..(Len(string) - Len(pattern) + 1) :
                   SubSeq(string, i, i + Len(pattern) - 1) = pattern}
  IN IF starts = {} THEN string
     ELSE LET i == Min(starts)
          IN SubSeq(string, 1, i - 1) \o SubSeq(string, i + Len(pattern), Len(string))

\* the string saveToLocalStorage stores
storageItem(b, meta, savedAt) ==
  JsonStringify(Obj(<<Prop(K_data, Str(bytesToBase64(b))),
                      Prop(K_meta, meta),
                      Prop(K_savedAt, Str(savedAt)),
                      Prop(K_size, Num(Len(b)))>>))

LoadError(message) == Throw(<<"Failed to load from localStorage: ", message>>)

loadFromLocalStorage(storage, key) ==
  LET stored == getItem(storage, S_storagePrefix \o key)
  IN IF ~Truthy(stored) THEN LoadError("Item not found in localStorage")
     ELSE LET parsed == JsonParse(stored.s)
          IN IF ~parsed.ok THEN LoadError("SyntaxError")
             ELSE IF parsed.val.t # "object" \/ Get(parsed.val, K_data).t # "string"
                  THEN LoadError("TypeError")
                  ELSE Return([blob |-> base64ToBytes(Get(parsed.val, K_data).s),
                               meta |-> Get(parsed.val, K_meta)])

\* a list that would be ordered by savedAt, oldest first
SortOldestFirst(items) ==
  LET keyed == AsTuple([i \in 1..Len(items) |->
                          [key |-> DateOf(items[i].savedAt.s), val |-> items[i]]])
      sorted == SortByKey(keyed, 0, 999)
  IN AsTuple([i \in 1..Len(items) |-> sorted[i].val])

\* items.sort((a, b) => new Date(b.savedAt) - new Date(a.savedAt)): a stable
\* sort, later dates first
SortNewestFirst(items) ==
  LET keyed == AsTuple([i \in 1..Len(items) |->
                          [key |-> 999 - DateOf(items[i].savedAt.s), val |-> items[i]]])
      sorted == SortByKey(keyed, 0, 999)
  IN AsTuple([i \in 1..Len(items) |-> sorted[i].val])

\* the loop of listSavedItems from entry i on: an entry whose key has the
\* prefix and whose value parses to an object is pushed
RECURSIVE ListFrom(_, _)
ListFrom(storage, i) ==
  IF i > Len(storage) THEN <<>>
  ELSE LET key == storage[i].key
           parsed == JsonParse(storage[i].value)
       IN IF StartsWith(key, 1, S_storagePrefix) /\ parsed.ok /\ parsed.val.t = "object"
          THEN <<[key |-> ReplaceFirst(key, S_storagePrefix),
                  meta |-> Get(parsed.val, K_meta),
                  savedAt |-> Get(parsed.val, K_savedAt),
                  size |-> Get(parsed.val, K_size)]>> \o ListFrom(storage, i + 1)
          ELSE ListFrom(storage, i + 1)

listSavedItems(storage) == SortNewestFirst(ListFrom(storage, 1))

(* ------------------------------ App.jsx -------------------------------- *)

\* useState(null), useState(null), useState(false), useState(null); no
\* handler has been called
AppMounted ==
  /\ compressionResult = Null
  /\ decompressedResult = Null
  /\ isProcessing = FALSE
  /\ inputType = Null
  /\ pending = {}
  /\ calls = 0

\* the browser the page runs in: its byte order, and what new Date() and the
\* difference of two performance.now() read while the page is open
BrowserLittleEndian == TRUE

S_pageOpenedAt == <<50, 48, 50, 52, 45, 48, 49, 45, 48, 49, 84, 48, 48, 58, 48, 48, 58, 48, 48, 46, 48, 48, 48, 90>>

ElapsedTime == 0

\* what the user can type, the files the user can pick in the input panel,
\* and the files and the saved item the user can load: 'A' and 'B', a
\* one-byte file that can or cannot be read, the three bytes of no container
\* and the container of 'A', which is also what was saved.  One byte
\* compresses to one byte, so that the ratio written to the metadata is the
\* whole number 1
Texts == {<<65>>, <<66>>}

PickedFiles ==
  {[name |-> <<102>>, type |-> <<>>, content |-> <<1>>, readable |-> r] : r \in BOOLEAN}

LoadedBlobs ==
  {<<1, 2, 3>>,
   compressFromText(<<65>>, S_textTxt, ElapsedTime, S_pageOpenedAt, BrowserLittleEndian).val}

SavedItems ==
  {[blob |-> compressFromText(<<65>>, S_textTxt, ElapsedTime, S_pageOpenedAt,
                              BrowserLittleEndian).val,
    meta |-> Obj(<<Prop(K_encoding, Str(S_utf8))>>)]}

\* { ...meta, compressedData: arrayBuffer, blob: blob }
ResultOf(meta, blob) == [meta |-> meta, compressedData |-> blob, blob |-> blob]

\* a handler that set no record for a decompression that threw
FailedDecompressionAsSuccess(message, processingTime) ==
  [success |-> TRUE, error |-> message, processingTime |-> processingTime]

\* the record of the catch block of handleDecompress
FailedDecompression(message, processingTime) ==
  [success |-> FALSE, error |-> message, processingTime |-> processingTime]

\* what the try block of handleInputChange has in result behind its awaits,
\* or what it throws: it depends on the arguments of the call alone
InputChangeResult(call) ==
  IF call.type = Str(S_text)
  THEN The({IF ~parsed.ok THEN parsed
            ELSE Return(ResultOf(parsed.val.meta, call.blob)) :
              parsed \in {parseCompressedFile(call.blob, BrowserLittleEndian)}})
  ELSE The({IF ~compressed.ok THEN compressed
            ELSE Return(ResultOf(compressed.val.meta, compressed.val.blob)) :
              compressed \in {compressFromFile(call.input, ElapsedTime, S_pageOpenedAt,
                                               BrowserLittleEndian)}})

\* what the try block of handleDecompress passes to setDecompressedResult,
\* or what it throws: it depends on the blob and the input type of the
\* render the call was made in alone
DecompressResult(call) ==
  IF call.inputType = Str(S_text)
  THEN The({IF ~decompressed.ok THEN decompressed
            ELSE Return([success |-> TRUE, text |-> decompressed.val.text,
                         meta |-> decompressed.val.meta, processingTime |-> ElapsedTime]) :
              decompressed \in {decompressToText(call.blob, BrowserLittleEndian)}})
  ELSE The({IF ~decompressed.ok THEN decompressed
            ELSE Return([success |-> TRUE, fileBytes |-> decompressed.val.fileBytes,
                         meta |-> decompressed.val.meta, processingTime |-> ElapsedTime]) :
              decompressed \in {decompressFileBlob(call.blob, BrowserLittleEndian)}})

\* the calls the buttons of the input panel can make, each with the blob
\* compressFromText returned or the error it threw and with the outcome of
\* the try block: both depend on the input alone
TextCalls ==
  {[input |-> c.input, blob |-> c.blob,
    result |-> IF c.blob.ok
               THEN InputChangeResult([type |-> Str(S_text), blob |-> c.blob.val])
               ELSE c.blob] :
     c \in {[input |-> text,
             blob |-> compressFromText(text, S_textTxt, ElapsedTime, S_pageOpenedAt,
                                       BrowserLittleEndian)] : text \in Texts}}

FileCalls ==
  {[input |-> file,
    result |-> InputChangeResult([type |-> Str(S_file), input |-> file])] :
     file \in PickedFiles}

\* the blobs a shown result can hold and the input types a render can have,
\* and the outcome of the try block of handleDecompress for each of them
ShownBlobs ==
  {c.result.val.blob : c \in {d \in TextCalls \cup FileCalls : d.result.ok}}
    \cup LoadedBlobs \cup {item.blob : item \in SavedItems}

InputTypes == {Str(S_text), Str(S_file), Null}

DecompressCalls ==
  {[inputType |-> c.inputType, blob |-> c.blob, result |-> DecompressResult(c)] :
     c \in {[inputType |-> type, blob |-> blob] : type \in InputTypes, blob \in ShownBlobs}}

InitApp ==
  /\ pc = "start"
  /\ bytes = <<>>
  /\ enc = NoValue
  /\ args = NoValue
  /\ res = NoValue
  /\ AppMounted
  /\ StorageInitial

\* handleInputChange(input, 'text') up to its first await: the Compress Text
\* button is disabled while isProcessing; compressFromText runs before the
\* await, and an error it throws is caught in the same run
HandleInputChangeText ==
  /\ ~isProcessing
  /\ calls < MaxCalls
  /\ \E call \in TextCalls :
       /\ args' = [input |-> call.input, type |-> Str(S_text)]
       /\ isProcessing' = call.blob.ok
       /\ pending' = IF call.blob.ok
                     THEN pending \cup {[id |-> calls + 1, handler |-> "handleInputChange",
                                         type |-> Str(S_text), blob |-> call.blob.val,
                                         result |-> call.result]}
                     ELSE pending
  /\ decompressedResult' = Null
  /\ inputType' = Str(S_text)
  /\ calls' = calls + 1
  /\ pc' = "handleInputChange"
  /\ UNCHANGED <<bytes, enc, res, compressionResult, storageVars>>

\* handleInputChange(file, 'file') up to its first await, which is on
\* compressFromFile; the file inputs are disabled while isProcessing
HandleInputChangeFile ==
  /\ ~isProcessing
  /\ calls < MaxCalls
  /\ \E call \in FileCalls :
       /\ args' = [input |-> call.input, type |-> Str(S_file)]
       /\ pending' = pending \cup {[id |-> calls + 1, handler |-> "handleInputChange",
                                    type |-> Str(S_file), input |-> call.input,
                                    result |-> call.result]}
  /\ isProcessing' = TRUE
  /\ decompressedResult' = Null
  /\ inputType' = Str(S_file)
  /\ calls' = calls + 1
  /\ pc' = "handleInputChange"
  /\ UNCHANGED <<bytes, enc, res, compressionResult, storageVars>>

\* handleInputChange behind its awaits, with what the awaited functions
\* returned or threw: setCompressionResult(result) or the catch block, then
\* the finally block
ResumeInputChange ==
  /\ \E call \in pending :
       /\ call.handler = "handleInputChange"
       /\ compressionResult' = IF call.result.ok THEN call.result.val
                               ELSE compressionResult
       /\ pending' = pending \ {call}
  /\ isProcessing' = FALSE
  /\ UNCHANGED <<pc, bytes, enc, args, res, decompressedResult, inputType, calls, storageVars>>

\* handleDecompress up to its first await: the Test Decompress button is
\* there when a result is shown and disabled while isProcessing; the blob
\* and the input type are those of the render the click was made in
HandleDecompress ==
  /\ compressionResult # Null
  /\ ~isProcessing
  /\ calls < MaxCalls
  /\ args' = NoValue
  /\ \E call \in DecompressCalls :
       /\ call.inputType = inputType
       /\ call.blob = compressionResult.blob
       /\ pending' = pending \cup {[id |-> calls + 1, handler |-> "handleDecompress",
                                    inputType |-> inputType, blob |-> call.blob,
                                    result |-> call.result]}
  /\ isProcessing' = TRUE
  /\ calls' = calls + 1
  /\ pc' = "handleDecompress"
  /\ UNCHANGED <<bytes, enc, res, compressionResult, decompressedResult, inputType,
                 storageVars>>

\* handleDecompress behind its await: the record of the try block or that of
\* the catch block, then the finally block
ResumeDecompress ==
  /\ \E call \in pending :
       /\ call.handler = "handleDecompress"
       /\ decompressedResult' = IF call.result.ok THEN call.result.val
                                ELSE FailedDecompression(call.result.err, ElapsedTime)
       /\ pending' = pending \ {call}
  /\ isProcessing' = FALSE
  /\ UNCHANGED <<pc, bytes, enc, args, res, compressionResult, inputType, calls, storageVars>>

\* handleLoadSaved(blob, meta) up to its await on blob.arrayBuffer(): the
\* saved list calls it behind its own await on loadFromLocalStorage, at any
\* time after the click
HandleLoadSaved ==
  /\ calls < MaxCalls
  /\ \E item \in SavedItems :
       /\ args' = item
       /\ pending' = pending \cup {[id |-> calls + 1, handler |-> "handleLoadSaved",
                                    blob |-> item.blob, meta |-> item.meta]}
  /\ calls' = calls + 1
  /\ pc' = "handleLoadSaved"
  /\ UNCHANGED <<bytes, enc, res, compressionResult, decompressedResult, isProcessing,
                 inputType, storageVars>>

\* handleUploadCompressed: handleLoadSaved(file, {}) for the picked file; the
\* file input is disabled while isProcessing
HandleUploadCompressed ==
  /\ ~isProcessing
  /\ calls < MaxCalls
  /\ \E file \in LoadedBlobs :
       /\ args' = [file |-> file]
       /\ pending' = pending \cup {[id |-> calls + 1, handler |-> "handleLoadSaved",
                                    blob |-> file, meta |-> Obj(<<>>)]}
  /\ calls' = calls + 1
  /\ pc' = "handleUploadCompressed"
  /\ UNCHANGED <<bytes, enc, res, compressionResult, decompressedResult, isProcessing,
                 inputType, storageVars>>

\* handleLoadSaved behind its await
ResumeLoadSaved ==
  /\ \E call \in pending :
       /\ call.handler = "handleLoadSaved"
       /\ compressionResult' = ResultOf(call.meta, call.blob)
       /\ inputType' = IF Get(call.meta, K_encoding) = Str(S_utf8) THEN Str(S_text)
                       ELSE Str(S_file)
       /\ pending' = pending \ {call}
  /\ decompressedResult' = Null
  /\ UNCHANGED <<pc, bytes, enc, args, res, isProcessing, calls, storageVars>>

\* handleReset: the Reset button is there when a result is shown, and is
\* not disabled while isProcessing
HandleReset ==
  /\ compressionResult # Null
  /\ compressionResult' = Null
  /\ decompressedResult' = Null
  /\ inputType' = Null
  /\ args' = NoValue
  /\ pc' = "handleReset"
  /\ UNCHANGED <<bytes, enc, res, isProcessing, pending, calls, storageVars>>

Resume ==
  \/ ResumeInputChange
  \/ ResumeDecompress
  \/ ResumeLoadSaved

NextApp ==
  \/ HandleInputChangeText
  \/ HandleInputChangeFile
  \/ ResumeInputChange
  \/ HandleDecompress
  \/ ResumeDecompress
  \/ HandleLoadSaved
  \/ HandleUploadCompressed
  \/ ResumeLoadSaved
  \/ HandleReset

SpecApp == InitApp /\ [][NextApp]_vars

\* a promise that can settle does settle: the continuation of a handler
\* that is waiting runs
SpecAppFair == SpecApp /\ WF_vars(Resume)

(* --------------------------- storage calls ----------------------------- *)

\* the keys, blobs and metadata of the calls: 'a' and a key that is the
\* prefix itself; one byte and two bytes, which end in '==' and in '='
StorageKeys == {<<97>>, S_storagePrefix}

StoredBlobs == {<<0>>, <<255, 1>>}

StoredMetas == {Obj(<<Prop(K_encoding, Str(S_utf8))>>)}

\* what is in the storage when the page is opened: nothing, or an entry of
\* another script and an entry under the prefix that is no JSON text
ForeignStorages ==
  {<<>>,
   <<[key |-> <<120>>, value |-> <<123, 125>>],
     [key |-> S_storagePrefix \o <<97>>, value |-> <<123>>]>>}

NeverSaved == [k \in StorageKeys |-> NoValue]

InitStorage ==
  /\ pc = "start"
  /\ bytes = <<>>
  /\ enc = NoValue
  /\ args = NoValue
  /\ res = NoValue
  /\ AppMounted
  /\ localStorage \in ForeignStorages
  /\ clock = 0
  /\ lastSaved = NeverSaved

\* saveToLocalStorage(key, blob, meta) up to its await on blob.arrayBuffer()
CallSaveToLocalStorage ==
  /\ calls < MaxSaves
  /\ \E key \in StorageKeys, blob \in StoredBlobs, meta \in StoredMetas :
       pending' = pending \cup {[id |-> calls + 1, handler |-> "saveToLocalStorage",
                                 key |-> key, blob |-> blob, meta |-> meta]}
  /\ calls' = calls + 1
  /\ pc' = "saveToLocalStorage"
  /\ args' = NoValue
  /\ res' = NoValue
  /\ UNCHANGED <<bytes, enc, compressionResult, decompressedResult, isProcessing,
                 inputType, storageVars>>

\* saveToLocalStorage behind its await: the item is built with the date of
\* this moment and stored, before or behind the entries that are there
ResumeSaveToLocalStorage ==
  /\ \E call \in pending, position \in {0, Len(localStorage)} :
       /\ call.handler = "saveToLocalStorage"
       /\ localStorage' = setItem(localStorage, S_storagePrefix \o call.key,
                                  storageItem(call.blob, call.meta, toISOString(clock)),
                                  position)
       /\ lastSaved' = [lastSaved EXCEPT ![call.key] = [blob |-> call.blob, savedAt |-> clock]]
       /\ pending' = pending \ {call}
  /\ pc' = "saved"
  /\ args' = NoValue
  /\ res' = NoValue
  /\ UNCHANGED <<bytes, enc, compressionResult, decompressedResult, isProcessing,
                 inputType, calls, clock>>

CallDeleteSavedItem ==
  /\ \E key \in StorageKeys :
       /\ localStorage' = removeItem(localStorage, S_storagePrefix \o key)
       /\ lastSaved' = [lastSaved EXCEPT ![key] = NoValue]
  /\ pc' = "deleted"
  /\ args' = NoValue
  /\ res' = NoValue
  /\ UNCHANGED <<bytes, enc, appVars, clock>>

CallListSavedItems ==
  /\ args' = NoValue
  /\ res' = Return(listSavedItems(localStorage))
  /\ pc' = "listed"
  /\ UNCHANGED <<bytes, enc, appVars, storageVars>>

CallLoadFromLocalStorage ==
  /\ \E key \in StorageKeys :
       /\ args' = [key |-> key]
       /\ res' = loadFromLocalStorage(localStorage, key)
  /\ pc' = "loaded"
  /\ UNCHANGED <<bytes, enc, appVars, storageVars>>

\* a millisecond passes
Tick ==
  /\ clock < MaxClock
  /\ clock' = clock + 1
  /\ UNCHANGED <<pc, bytes, enc, args, res, appVars, localStorage, lastSaved>>

NextStorage ==
  \/ CallSaveToLocalStorage
  \/ ResumeSaveToLocalStorage
  \/ CallDeleteSavedItem
  \/ CallListSavedItems
  \/ CallLoadFromLocalStorage
  \/ Tick

SpecStorage == InitStorage /\ [][NextStorage]_vars

(* ------------------- transform and pipeline calls ---------------------- *)

Inputs == SeqsUpTo(ByteVals, MaxLen)

\* readings of the elapsed time
Durations == {0, 1}

\* the stage lists a caller may ask for: the sublists of bwt, mtf, rle
StageSubsets ==
  {Arr(a \o b \o c) : a \in {<<>>, <<Str(S_bwt)>>}, b \in {<<>>, <<Str(S_mtf)>>},
                      c \in {<<>>, <<Str(S_rle)>>}}

\* the second argument of compressBytes: left out, an object that names the
\* stages under the key pipeline, or one that names 'rle' under the key stages
Options ==
  {Undefined}
    \cup {Obj(<<Prop(K_pipeline, list)>>) : list \in StageSubsets}
    \cup {Obj(<<Prop(K_stages, Arr(<<Str(S_rle)>>))>>)}

\* messages of an error thrown inside a stage: none, and "Invalid array length"
ErrorMessages == {<<>>, <<73, 110, 118, 97, 108, 105, 100, 32, 97, 114, 114, 97, 121, 32, 108, 101, 110, 103, 116, 104>>}

\* stage lists a caller may put into metadata
StageNames == {S_bwt, S_mtf, S_rle, S_none}
StageLists ==
  {Arr([i \in 1..Len(q) |-> Str(q[i])]) : q \in SeqsUpTo(StageNames, 2)}
    \cup {Arr(<<Str(S_bwt), Str(S_mtf), Str(S_rle)>>)}

\* primary indexes a caller may put into metadata: in range, out of range
\* on both sides, and values that are no number
PrimaryIndexes == {Num(k) : k \in {-1, 0, 1, MaxLen}} \cup {Str(<<48>>), Null}

OptionalProp(key, values) == {<<>>} \cup {<<Prop(key, v)>> : v \in values}

Metas ==
  {Null, Undefined}
    \cup {Obj(p \o q) : p \in OptionalProp(K_pipeline, StageLists),
                        q \in OptionalProp(K_primaryIndex, PrimaryIndexes)}

Init ==
  /\ pc = "start"
  /\ bytes \in Inputs
  /\ enc = NoValue
  /\ args = NoValue
  /\ res = NoValue
  /\ AppMounted
  /\ StorageInitial

CallBwtEncode ==
  /\ pc = "start"
  /\ enc' = bwtEncode(bytes)
  /\ pc' = "bwtEncoded"
  /\ UNCHANGED <<bytes, args, res>>
  /\ UNCHANGED <<appVars, storageVars>>

CallBwtDecode ==
  /\ pc = "bwtEncoded"
  /\ args' = [transformed |-> enc.transformed, primaryIndex |-> enc.primaryIndex]
  /\ res' = bwtDecode(enc.transformed, enc.primaryIndex)
  /\ pc' = "bwtDecoded"
  /\ UNCHANGED <<bytes, enc>>
  /\ UNCHANGED <<appVars, storageVars>>

\* bwtDecode on what bwtEncode returned, with another index of the array in
\* place of the primary index
CallBwtDecodeWrongIndex ==
  /\ pc = "bwtEncoded"
  /\ \E q \in 0..(Len(enc.transformed) - 1) :
       /\ q # enc.primaryIndex
       /\ args' = [transformed |-> enc.transformed, primaryIndex |-> q]
       /\ res' = bwtDecode(enc.transformed, q)
  /\ pc' = "bwtDecodedWrongIndex"
  /\ UNCHANGED <<bytes, enc>>
  /\ UNCHANGED <<appVars, storageVars>>

CallMtfEncode ==
  /\ pc = "start"
  /\ enc' = mtfEncode(bytes)
  /\ pc' = "mtfEncoded"
  /\ UNCHANGED <<bytes, args, res>>
  /\ UNCHANGED <<appVars, storageVars>>

CallMtfDecode ==
  /\ pc = "mtfEncoded"
  /\ args' = enc
  /\ res' = Return(mtfDecode(enc))
  /\ pc' = "mtfDecoded"
  /\ UNCHANGED <<bytes, enc>>
  /\ UNCHANGED <<appVars, storageVars>>

CallCompressBytes ==
  /\ pc = "start"
  /\ \E dt \in Durations, options \in Options :
       /\ args' = [options |-> options]
       /\ enc' = compressBytes(bytes, options, dt, Undefined)
  /\ pc' = "compressed"
  /\ UNCHANGED <<bytes, res>>
  /\ UNCHANGED <<appVars, storageVars>>

\* decompressBytes on what compressBytes returned
CallDecompressCompressed ==
  /\ pc = "compressed"
  /\ args' = [payload |-> enc.payload, meta |-> enc.meta, options |-> args.options]
  /\ res' = decompressBytes(enc.payload, enc.meta)
  /\ pc' = "roundTripped"
  /\ UNCHANGED <<bytes, enc>>
  /\ UNCHANGED <<appVars, storageVars>>

\* compressBytes when one of its stages throws; no stage runs for the empty
\* input
CallCompressBytesStageThrows ==
  /\ pc = "start"
  /\ bytes # <<>>
  /\ \E dt \in Durations, message \in ErrorMessages :
       enc' = compressBytes(bytes, Undefined, dt, Str(message))
  /\ pc' = "fellBack"
  /\ UNCHANGED <<bytes, args, res>>
  /\ UNCHANGED <<appVars, storageVars>>

\* decompressBytes on what compressBytes returned from its catch block
CallDecompressFallback ==
  /\ pc = "fellBack"
  /\ args' = [payload |-> enc.payload, meta |-> enc.meta]
  /\ res' = decompressBytes(enc.payload, enc.meta)
  /\ pc' = "fallbackDecompressed"
  /\ UNCHANGED <<bytes, enc>>
  /\ UNCHANGED <<appVars, storageVars>>

\* what is added to the first byte of a payload to corrupt it: the 1 of the
\* pipeline test, and 255
Deltas == {1, 255}

\* corruptedPayload[0] = (corruptedPayload[0] + delta) % 256
Corrupt(payload, delta) == [payload EXCEPT ![1] = (payload[1] + delta) % 256]

\* decompressBytes on the payload compressBytes returned, with its first byte
\* changed, and the metadata compressBytes returned
CallDecompressCorrupted ==
  /\ pc = "compressed"
  /\ enc.payload # <<>>
  /\ \E delta \in Deltas :
       /\ args' = [payload |-> Corrupt(enc.payload, delta), meta |-> enc.meta,
                   options |-> args.options]
       /\ res' = decompressBytes(Corrupt(enc.payload, delta), enc.meta)
  /\ pc' = "corruptedDecompressed"
  /\ UNCHANGED <<bytes, enc>>
  /\ UNCHANGED <<appVars, storageVars>>

\* decompressBytes on a payload and metadata of the caller's choosing
CallDecompressBytes ==
  /\ pc = "start"
  /\ \E m \in Metas :
       /\ args' = [payload |-> bytes, meta |-> m]
       /\ res' = decompressBytes(bytes, m)
  /\ pc' = "decompressed"
  /\ UNCHANGED <<bytes, enc>>
  /\ UNCHANGED <<appVars, storageVars>>

Next ==
  \/ CallBwtEncode
  \/ CallBwtDecode
  \/ CallBwtDecodeWrongIndex
  \/ CallMtfEncode
  \/ CallMtfDecode
  \/ CallCompressBytes
  \/ CallDecompressCompressed
  \/ CallDecompressCorrupted
  \/ CallCompressBytesStageThrows
  \/ CallDecompressFallback
  \/ CallDecompressBytes

Spec == Init /\ [][Next]_vars

(* --------------------------- run-length calls -------------------------- *)

RECURSIVE RunInputs(_)
RunInputs(k) ==
  IF k = 0 THEN {<<>>}
  ELSE LET shorter == RunInputs(k - 1)
       IN shorter \cup {s \o Fill(v, r) : s \in shorter, v \in ByteVals, r \in RunLens}

InitRle ==
  /\ pc = "start"
  /\ bytes \in RunInputs(MaxRuns)
  /\ enc = NoValue
  /\ args = NoValue
  /\ res = NoValue
  /\ AppMounted
  /\ StorageInitial

CallRleEncode ==
  /\ pc = "start"
  /\ enc' = rleEncode(bytes)
  /\ pc' = "rleEncoded"
  /\ UNCHANGED <<bytes, args, res>>
  /\ UNCHANGED <<appVars, storageVars>>

CallRleDecode ==
  /\ pc = "rleEncoded"
  /\ args' = enc
  /\ res' = Return(rleDecode(enc))
  /\ pc' = "rleDecoded"
  /\ UNCHANGED <<bytes, enc>>
  /\ UNCHANGED <<appVars, storageVars>>

NextRle == CallRleEncode \/ CallRleDecode

SpecRle == InitRle /\ [][NextRle]_vars

(* ------------------------ calls on arbitrary bytes ---------------------- *)

\* byte sequences that no encoder need have written
EncodedInputs == SeqsUpTo(ByteVals, MaxEncoded)

InitDecode ==
  /\ pc = "start"
  /\ bytes \in EncodedInputs
  /\ enc = NoValue
  /\ args = NoValue
  /\ res = NoValue
  /\ AppMounted
  /\ StorageInitial

\* rleDecode on the bytes as they are
CallRleDecodeBytes ==
  /\ pc = "start"
  /\ args' = bytes
  /\ res' = Return(rleDecode(bytes))
  /\ pc' = "rleDecodedBytes"
  /\ UNCHANGED <<bytes, enc>>
  /\ UNCHANGED <<appVars, storageVars>>

\* mtfDecode on the bytes as they are
CallMtfDecodeBytes ==
  /\ pc = "start"
  /\ args' = bytes
  /\ res' = Return(mtfDecode(bytes))
  /\ pc' = "mtfDecodedBytes"
  /\ UNCHANGED <<bytes, enc>>
  /\ UNCHANGED <<appVars, storageVars>>

\* bwtDecode on the bytes as they are, with any index of the array
CallBwtDecodeBytes ==
  /\ pc = "start"
  /\ \E p \in 0..(Len(bytes) - 1) :
       /\ args' = [transformed |-> bytes, primaryIndex |-> p]
       /\ res' = bwtDecode(bytes, p)
  /\ pc' = "bwtDecodedBytes"
  /\ UNCHANGED <<bytes, enc>>
  /\ UNCHANGED <<appVars, storageVars>>

NextDecode ==
  \/ CallRleDecodeBytes
  \/ CallMtfDecodeBytes
  \/ CallBwtDecodeBytes

SpecDecode == InitDecode /\ [][NextDecode]_vars

(* ---------------------- bwtDecode on long arrays ------------------------ *)

\* arrays of 255 to 256 + MaxExcess bytes: 255 equal bytes and a tail
LongInputs ==
  {Fill(v, 255) \o tail : v \in ByteVals, tail \in SeqsUpTo(ByteVals, 1 + MaxExcess)}

InitLong ==
  /\ pc = "start"
  /\ bytes \in LongInputs
  /\ enc = NoValue
  /\ args = NoValue
  /\ res = NoValue
  /\ AppMounted
  /\ StorageInitial

\* bwtDecode on the bytes as they are, from the first or the last index
CallBwtDecodeLong ==
  /\ pc = "start"
  /\ \E p \in {0, Len(bytes) - 1} :
       /\ args' = [transformed |-> bytes, primaryIndex |-> p]
       /\ res' = bwtDecode(bytes, p)
  /\ pc' = "bwtDecodedLong"
  /\ UNCHANGED <<bytes, enc>>
  /\ UNCHANGED <<appVars, storageVars>>

NextLong == CallBwtDecodeLong

SpecLong == InitLong /\ [][NextLong]_vars

(* --------------------------- statistics calls -------------------------- *)

\* sizes in bytes: the small ones, and those of the pipeline tests
Sizes == (0..MaxSize) \cup {100, 150, 500, 1000}

InitStats ==
  /\ pc = "start"
  /\ bytes = <<>>
  /\ enc = NoValue
  /\ args \in [originalSize : Sizes, compressedSize : Sizes]
  /\ res = NoValue
  /\ AppMounted
  /\ StorageInitial

CallGetCompressionStats ==
  /\ pc = "start"
  /\ res' = getCompressionStats(args.originalSize, args.compressedSize)
  /\ pc' = "stats"
  /\ UNCHANGED <<bytes, enc, args>>
  /\ UNCHANGED <<appVars, storageVars>>

NextStats == CallGetCompressionStats

SpecStats == InitStats /\ [][NextStats]_vars

(* --------------------------- container calls --------------------------- *)

\* the byte values of payloads: both ends of the range
PayloadVals == {0, 255}

\* payloads and hand-made tails: short byte sequences, and the text {}
SerInputs == SeqsUpTo(PayloadVals, MaxPayload) \cup {<<123, 125>>}

\* readings of new Date().toISOString()
Nows == {<<50, 48, 50, 52, 45, 48, 49, 45, 48, 49, 84, 48, 48, 58, 48, 48, 58, 48, 48, 46, 48, 48, 48, 90>>, <<50, 48, 50, 53, 45, 48, 54, 45, 51, 48, 84, 50, 51, 58, 53, 57, 58, 53, 57, 46, 57, 57, 57, 90>>}

\* a file name with a quote, a two-byte character and a line feed
S_oddName == <<97, 34, 233, 10>>

\* metadata objects a caller may hand over: each field left out, falsy or set
CallerMetas ==
  {Obj(a \o b \o c \o d \o e) :
     a \in OptionalProp(K_originalFilename, {Str(<<>>), Str(S_oddName)}),
     b \in OptionalProp(K_originalSize, {Num(0), Num(10)}),
     c \in OptionalProp(K_primaryIndex, {Num(3)}),
     d \in OptionalProp(K_pipeline, {Arr(<<Str(S_rle)>>)}),
     e \in OptionalProp(K_mimeType, {Str(S_textPlain)})}

\* bytes of a hand-made length field
LengthBytes == {0, 2, 255}

\* what a hand-made file starts with: a cut or complete magic value, a magic
\* value with one byte changed, a magic value with a cut or complete length
Headers ==
  {SubSeq(MAGIC_HEADER, 1, k) : k \in 0..7}
    \cup {[MAGIC_HEADER EXCEPT ![i] = b] : i \in 1..7, b \in ByteVals}
    \cup {MAGIC_HEADER \o SubSeq(l, 1, k) : l \in [1..4 -> LengthBytes], k \in 1..4}

InitSer ==
  /\ pc = "start"
  /\ bytes \in SerInputs
  /\ enc = NoValue
  /\ args = NoValue
  /\ res = NoValue
  /\ AppMounted
  /\ StorageInitial

CallSerializeCompressed ==
  /\ pc = "start"
  /\ \E m \in CallerMetas, now \in Nows, le \in BOOLEAN :
       /\ args' = [meta |-> m, payload |-> bytes, now |-> now, littleEndian |-> le]
       /\ enc' = serializeCompressed(m, bytes, now, le)
  /\ pc' = "serialized"
  /\ UNCHANGED <<bytes, res>>
  /\ UNCHANGED <<appVars, storageVars>>

\* parseCompressedFile on the blob serializeCompressed returned, on a
\* platform of either byte order
CallParseSerialized ==
  /\ pc = "serialized"
  /\ enc.ok
  /\ \E le \in BOOLEAN : res' = parseCompressedFile(enc.val, le)
  /\ pc' = "parsed"
  /\ UNCHANGED <<bytes, enc, args>>
  /\ UNCHANGED <<appVars, storageVars>>

\* parseCompressedFile on a hand-made file
CallParseCompressedFile ==
  /\ pc = "start"
  /\ \E h \in Headers, le \in BOOLEAN :
       /\ args' = [blob |-> h \o bytes, littleEndian |-> le]
       /\ res' = parseCompressedFile(h \o bytes, le)
  /\ pc' = "parsedRaw"
  /\ UNCHANGED <<bytes, enc>>
  /\ UNCHANGED <<appVars, storageVars>>

NextSer == CallSerializeCompressed \/ CallParseSerialized \/ CallParseCompressedFile

SpecSer == InitSer /\ [][NextSer]_vars

(* ------------------------------ round trips ---------------------------- *)

\* C1: decompressBytes(compressBytes(x).payload, compressBytes(x).meta)
\* returns exactly x, for every byte sequence x
PipelineRoundTrip ==
  pc = "roundTripped" => res.ok /\ res.val = bytes

\* C2: bwtDecode(bwtEncode(x).transformed, bwtEncode(x).primaryIndex) equals x
BwtRoundTrip ==
  pc = "bwtDecoded" => res.ok /\ res.val = bytes

\* C3: rleDecode(rleEncode(x)) equals x, for isolated and repeated 0xFF,
\* runs longer than 255 and a literal right after an escape triple
RleRoundTrip ==
  pc = "rleDecoded" => res.ok /\ res.val = bytes

\* a run of 256 escape bytes followed by a literal has been round-tripped:
\* a split run of 0xFF, an isolated 0xFF piece and a literal after a triple
RleRoundTripWitness ==
  /\ pc = "rleDecoded"
  /\ bytes = Fill(ESCAPE, 256) \o <<1>>
  /\ enc = <<ESCAPE, ESCAPE, 254, ESCAPE, ESCAPE, 0, 1>>
  /\ res.val = bytes

\* C4: mtfDecode(mtfEncode(x)) equals x and mtfEncode(x) is as long as x
MtfRoundTrip ==
  /\ pc \in {"mtfEncoded", "mtfDecoded"} => Len(enc) = Len(bytes)
  /\ pc = "mtfDecoded" => res.ok /\ res.val = bytes

\* a sequence with a repeated and a recurring byte has been round-tripped
MtfRoundTripWitness ==
  /\ pc = "mtfDecoded"
  /\ bytes = <<65, 65, 255>>
  /\ enc = <<65, 0, 255>>
  /\ res.val = bytes

(* -------------------------- decompressBytes errors ---------------------- *)

InvalidMetadataError == Throw(<<"Invalid metadata for decompression">>)

MissingPrimaryIndexError ==
  Throw(<<"Decompression failed: ", "Missing primaryIndex for BWT decompression">>)

\* the metadata of the call is null or undefined, or an object without a
\* pipeline property
MetaAbsentOrNoPipeline ==
  \/ args.meta.t \in {"null", "undefined"}
  \/ /\ args.meta.t = "object"
     /\ \A i \in 1..Len(args.meta.o) : args.meta.o[i].k # K_pipeline

\* C9 as stated: decompressBytes fails with the invalid-metadata error
\* whenever meta is absent or has no pipeline field, for every payload,
\* the empty one included
InvalidMetadataAnyPayload ==
  (pc = "decompressed" /\ MetaAbsentOrNoPipeline) => res = InvalidMetadataError

\* C9 amended: decompressBytes fails with the invalid-metadata error whenever
\* meta is absent or has no pipeline field and the payload is not empty; for
\* the empty payload it returns the empty sequence whatever meta is
InvalidMetadataNonEmptyPayload ==
  /\ (pc = "decompressed" /\ MetaAbsentOrNoPipeline /\ args.payload # <<>>)
        => res = InvalidMetadataError
  /\ (pc = "decompressed" /\ args.payload = <<>>) => res = Return(<<>>)

\* a non-empty payload was rejected for metadata that is an object without a
\* stage list
InvalidMetadataWitness ==
  /\ pc = "decompressed"
  /\ args.payload = <<1, 65>>
  /\ args.meta = Obj(<<Prop(K_primaryIndex, Num(0))>>)
  /\ res = InvalidMetadataError

\* the stage list of the call's metadata is an array that holds 'bwt'
StageListHasBwt ==
  /\ args.meta.t = "object"
  /\ \E i \in 1..Len(args.meta.o) :
       /\ args.meta.o[i].k = K_pipeline
       /\ args.meta.o[i].v.t = "array"
       /\ \E j \in 1..Len(args.meta.o[i].v.a) : args.meta.o[i].v.a[j] = Str(S_bwt)

\* meta.primaryIndex is missing or is no number
PrimaryIndexNotNumber ==
  \A i \in 1..Len(args.meta.o) :
    args.meta.o[i].k = K_primaryIndex => args.meta.o[i].v.t # "number"

\* C10: for every non-empty payload, decompressBytes fails with the
\* missing-primary-index error whenever the stage list contains 'bwt' and
\* meta.primaryIndex is not a number, whatever other stages are listed
MissingPrimaryIndexFails ==
  (/\ pc = "decompressed"
   /\ args.payload # <<>>
   /\ StageListHasBwt
   /\ PrimaryIndexNotNumber) => res = MissingPrimaryIndexError

\* a payload was rejected for a string-valued primary index after the RLE
\* inverse had been applied
MissingPrimaryIndexWitness ==
  /\ pc = "decompressed"
  /\ args.payload = <<255, 1, 1>>
  /\ args.meta = Obj(<<Prop(K_pipeline, Arr(<<Str(S_rle), Str(S_bwt)>>)),
                       Prop(K_primaryIndex, Str(<<48>>))>>)
  /\ res = MissingPrimaryIndexError

(* ------------------------------ container ------------------------------ *)

\* C5: parseCompressedFile(serializeCompressed(m, p)) returns a payload
\* byte-equal to p and metadata in which every field of m has the value the
\* caller supplied
SerializationRoundTrip ==
  pc = "parsed" =>
    /\ res.ok
    /\ res.val.payloadUint8Array = bytes
    /\ res.val.meta.t = "object"
    /\ \A i \in 1..Len(args.meta.o) :
         \E j \in 1..Len(res.val.meta.o) : res.val.meta.o[j] = args.meta.o[i]

\* metadata with an empty size, an odd file name and an extra field came
\* back with a two-byte payload
SerializationRoundTripWitness ==
  /\ pc = "parsed"
  /\ bytes = <<0, 255>>
  /\ args.meta = Obj(<<Prop(K_originalFilename, Str(S_oddName)),
                       Prop(K_originalSize, Num(0)),
                       Prop(K_primaryIndex, Num(3))>>)
  /\ res.ok
  /\ res.val.payloadUint8Array = bytes

\* C6: the blob is the 7 magic bytes, the metadata length L as 4 big-endian
\* bytes, L bytes of metadata and the payload unchanged, 11 + L + len(payload)
\* bytes in all
BlobLayout ==
  (pc \in {"serialized", "parsed"} /\ enc.ok) =>
    LET blob == enc.val
        L == Len(blob) - 11 - Len(bytes)
    IN /\ L >= 2
       /\ SubSeq(blob, 1, 7) = <<66, 87, 84, 74, 83, 49, 0>>
       /\ blob[8] * 16777216 + blob[9] * 65536 + blob[10] * 256 + blob[11] = L
       /\ blob[12] = 123
       /\ blob[11 + L] = 125
       /\ JsonParse(TextDecode(SubSeq(blob, 12, 11 + L))).ok
       /\ SubSeq(blob, 12 + L, Len(blob)) = bytes

\* a blob was written on a little-endian platform for a payload that starts
\* with a zero byte
BlobLayoutWitness ==
  /\ pc = "serialized"
  /\ args.littleEndian
  /\ bytes = <<0, 255>>
  /\ enc.ok
  /\ Len(enc.val) > 13 + Len(bytes)

TooShortError == ParseError("File too short to be a valid compressed file")
MagicMismatchError == ParseError("Invalid file format: magic header mismatch")
TruncatedLengthError == ParseError("File truncated: missing metadata length")
TruncatedMetadataError == ParseError("File truncated: missing metadata")

\* C7: a blob of fewer than 7 bytes fails as too short; a blob of at least 7
\* bytes whose first 7 bytes differ from the magic value fails with the magic
\* header mismatch, whatever follows
MagicRejection ==
  pc = "parsedRaw" =>
    /\ Len(args.blob) < 7 => res = TooShortError
    /\ (Len(args.blob) >= 7 /\ SubSeq(args.blob, 1, 7) # <<66, 87, 84, 74, 83, 49, 0>>)
          => res = MagicMismatchError

\* a file that differs from the magic value in its seventh byte only, with a
\* byte behind it, was rejected
MagicRejectionWitness ==
  /\ pc = "parsedRaw"
  /\ args.blob = <<66, 87, 84, 74, 83, 49, 1, 0>>
  /\ res = MagicMismatchError

\* the blob handed to the last parse
ParsedBlob == IF pc = "parsedRaw" THEN args.blob ELSE enc.val

\* C8: behind a correct magic value, fewer than 4 bytes fail with the
\* truncated-length-header condition; otherwise a declared big-endian length L
\* above the number of bytes behind offset 11 fails with the
\* truncated-metadata condition, for L up to 2^32-1; and no truncation is
\* reported when L bytes are there
TruncationRejection ==
  (pc \in {"parsedRaw", "parsed"} /\ Len(ParsedBlob) >= 7
     /\ SubSeq(ParsedBlob, 1, 7) = <<66, 87, 84, 74, 83, 49, 0>>) =>
    LET blob == ParsedBlob
        exceeds == \/ blob[8] >= 128
                   \/ blob[8] * 16777216 + blob[9] * 65536 + blob[10] * 256 + blob[11]
                        > Len(blob) - 11
    IN IF Len(blob) < 11 THEN res = TruncatedLengthError
       ELSE IF exceeds THEN res = TruncatedMetadataError
       ELSE res \notin {TruncatedLengthError, TruncatedMetadataError}

\* a declared length of 2^32-1 with two bytes behind it was rejected
TruncationRejectionWitness ==
  /\ pc = "parsedRaw"
  /\ args.blob = MAGIC_HEADER \o <<255, 255, 255, 255, 0, 255>>
  /\ res = TruncatedMetadataError

(* -------------------- decompressBytes: stage selection ------------------ *)

\* the stage list of the call's metadata
StageList == Get(args.meta, K_pipeline)

\* the stage list is an array and name is one of its elements
Listed(name) ==
  /\ args.meta.t = "object"
  /\ StageList.t = "array"
  /\ \E j \in 1..Len(StageList.a) : StageList.a[j] = Str(name)

\* the number of bytes that reach the inverse BWT: the inverse MTF keeps the
\* length, the inverse RLE expands the payload
LengthAtBwt ==
  IF Listed(S_rle) THEN Len(rleDecode(args.payload)) ELSE Len(args.payload)

\* meta.primaryIndex is a number below 0 or not below the length at the BWT
PrimaryIndexOutOfRange ==
  /\ Get(args.meta, K_primaryIndex).t = "number"
  /\ \/ Get(args.meta, K_primaryIndex).n < 0
     \/ Get(args.meta, K_primaryIndex).n >= LengthAtBwt

\* C11: when the stage list contains 'bwt' and n > 0 bytes reach the inverse
\* BWT, decompressBytes fails with an error for every primary index that is
\* negative or at least n; no byte sequence is returned
OutOfRangePrimaryIndexFails ==
  (/\ pc = "decompressed"
   /\ Listed(S_bwt)
   /\ LengthAtBwt > 0
   /\ PrimaryIndexOutOfRange)
     => res = Throw(<<"Decompression failed: ", "TypeError">>)

\* two bytes reached the inverse BWT behind the inverses of RLE and MTF, and
\* the primary index 3 was rejected
OutOfRangePrimaryIndexWitness ==
  /\ pc = "decompressed"
  /\ args.payload = <<255, 1, 1>>
  /\ args.meta = Obj(<<Prop(K_pipeline, Arr(<<Str(S_bwt), Str(S_mtf), Str(S_rle)>>)),
                       Prop(K_primaryIndex, Num(MaxLen))>>)
  /\ LengthAtBwt = 2
  /\ ~res.ok

\* what the inverses of the listed stages give for the call's payload, taken
\* in the order RLE, MTF, BWT
InversesOfListed ==
  LET afterRle == IF Listed(S_rle) THEN rleDecode(args.payload) ELSE args.payload
      afterMtf == IF Listed(S_mtf) THEN mtfDecode(afterRle) ELSE afterRle
      primaryIndex == Get(args.meta, K_primaryIndex)
  IN IF ~Listed(S_bwt) THEN Return(afterMtf)
     ELSE IF primaryIndex.t # "number" THEN MissingPrimaryIndexError
     ELSE Rethrow("Decompression failed: ", bwtDecode(afterMtf, primaryIndex.n))

\* the call has a non-empty payload and metadata with an array as stage list
StageListCall ==
  /\ pc = "decompressed"
  /\ args.payload # <<>>
  /\ args.meta.t = "object"
  /\ StageList.t = "array"

FullStageList == Arr(<<Str(S_bwt), Str(S_mtf), Str(S_rle)>>)

\* C13: for every input x, compressBytes returns metadata with
\* originalSize = len(x), compressedSize = len(payload) and the stage list
\* ['bwt','mtf','rle'], the empty input included (empty payload, both sizes
\* 0); for a non-empty x the primary index lies in 0..len(x)-1
CompressMetadata ==
  pc = "compressed" =>
    /\ Get(enc.meta, K_originalSize) = Num(Len(bytes))
    /\ Get(enc.meta, K_compressedSize) = Num(Len(enc.payload))
    /\ Get(enc.meta, K_pipeline) = FullStageList
    /\ bytes = <<>> => enc.payload = <<>>
    /\ bytes # <<>> =>
         /\ Get(enc.meta, K_primaryIndex).t = "number"
         /\ Get(enc.meta, K_primaryIndex).n \in 0..(Len(bytes) - 1)

(* ------------------------- compressBytes fallback ----------------------- *)

RequestedStages ==
  IF HasKey(args.options, K_stages) THEN Get(args.options, K_stages)
  ELSE Get(args.options, K_pipeline)

Requested(name) ==
  \E j \in 1..Len(RequestedStages.a) : RequestedStages.a[j] = Str(name)

\* the input after the requested stages alone, in the order BWT, MTF, RLE
RequestedStagesApplied ==
  LET afterBwt == IF Requested(S_bwt) THEN bwtEncode(bytes).transformed ELSE bytes
      afterMtf == IF Requested(S_mtf) THEN mtfEncode(afterBwt) ELSE afterBwt
  IN IF Requested(S_rle) THEN rleEncode(afterMtf) ELSE afterMtf

\* C15: for every subset S of bwt, mtf, rle passed as the stage option,
\* compressBytes applies the stages of S only, its metadata records S as the
\* stage list, and decompressBytes on the result returns the input
StageSubsetOption ==
  /\ (pc \in {"compressed", "roundTripped"} /\ args.options.t = "object") =>
        /\ enc.payload = RequestedStagesApplied
        /\ Get(enc.meta, K_pipeline) = RequestedStages
  /\ (pc = "roundTripped" /\ args.options.t = "object") => res = Return(bytes)

(* --------------------------- getCompressionStats ------------------------ *)

\* the number v is the quotient a / b
IsQuotient(v, a, b) ==
  IF "n" \in DOMAIN v THEN v.n * b = a ELSE v.num * b = a * v.den

\* C16: for sizes o and c, getCompressionStats gives spaceSaved = o - c,
\* ratio c / o and reduction 100 * (o - c) / o when o > 0, ratio 1 and
\* reduction 0 when o = 0 whatever c is, and isEffective exactly when o > 0
\* and c < o
StatsAsDefined ==
  pc = "stats" =>
    LET o == args.originalSize
        c == args.compressedSize
    IN /\ res.spaceSaved = Num(o - c)
       /\ o > 0 => /\ IsQuotient(res.compressionRatio, c, o)
                   /\ IsQuotient(res.reductionPercent, 100 * (o - c), o)
       /\ o = 0 => /\ res.compressionRatio = Num(1)
                   /\ res.reductionPercent = Num(0)
       /\ res.isEffective = Bool(o > 0 /\ c < o)

\* an expansion from 100 to 150 bytes was reported as ratio 3/2, reduction
\* -50 and not effective
StatsAsDefinedWitness ==
  /\ pc = "stats"
  /\ args = [originalSize |-> 100, compressedSize |-> 150]
  /\ IsQuotient(res.compressionRatio, 3, 2)
  /\ res.reductionPercent = Num(-50)
  /\ res.spaceSaved = Num(-50)
  /\ res.isEffective = Bool(FALSE)

(* -------------------------------- bwtEncode ----------------------------- *)

\* the rotation of the input that starts at offset k
Rotation(k) == [i \in 1..Len(bytes) |-> bytes[((k + i - 1) % Len(bytes)) + 1]]

\* s comes before t in lexicographic order
LexLess(s, t) ==
  \E i \in 1..Len(s) : s[i] < t[i] /\ \A j \in 1..(i - 1) : s[j] = t[j]

\* the rotation at offset j is sorted in front of the one at offset k; equal
\* rotations keep the order of their offsets
SortsBefore(j, k) ==
  \/ LexLess(Rotation(j), Rotation(k))
  \/ Rotation(j) = Rotation(k) /\ j < k

\* the offset at position i of the sorted rotations
SortedOffset(i) ==
  CHOOSE k \in 0..(Len(bytes) - 1) :
    Cardinality({j \in 0..(Len(bytes) - 1) : SortsBefore(j, k)}) = i

Occurrences(s, v) == Cardinality({i \in 1..Len(s) : s[i] = v})

\* C17: for a non-empty x of length n, bwtEncode(x).transformed has length n
\* and the byte values of x with their multiplicities, transformed[i] is
\* x[(offset[i] + n - 1) mod n] for the sorted rotation offsets, and
\* primaryIndex is the position of offset 0 among them, so within 0..n-1;
\* for the empty x the result is the empty sequence with primaryIndex 0
BwtEncodeLastColumn ==
  pc = "bwtEncoded" =>
    LET n == Len(bytes) IN
    /\ Len(enc.transformed) = n
    /\ \A v \in 0..255 : Occurrences(enc.transformed, v) = Occurrences(bytes, v)
    /\ \A i \in 0..(n - 1) :
         At(enc.transformed, i) = At(bytes, (SortedOffset(i) + n - 1) % n)
    /\ n > 0 => /\ enc.primaryIndex \in 0..(n - 1)
                /\ SortedOffset(enc.primaryIndex) = 0
    /\ n = 0 => enc = [transformed |-> <<>>, primaryIndex |-> 0]

\* [0, 1, 0] was transformed into [1, 0, 0] with the input at position 1 of
\* the sorted rotations [0,0,1], [0,1,0], [1,0,0]
BwtEncodeLastColumnWitness ==
  /\ pc = "bwtEncoded"
  /\ bytes = <<0, 1, 0>>
  /\ enc.transformed = <<1, 0, 0>>
  /\ enc.primaryIndex = 1

(* -------------------------------- rleEncode ----------------------------- *)

\* the length of the maximal run of the input that starts at position i
MaximalRun(i) ==
  Min({j \in i..Len(bytes) : bytes[j] # bytes[i]} \cup {Len(bytes) + 1}) - i

\* the code of one piece of a run
Piece(value, length) ==
  IF length >= 2 THEN <<255, value, length - 1>>
  ELSE IF value = 255 THEN <<255, 255, 0>>
  ELSE <<value>>

\* a run cut into pieces of at most 255 bytes, the full pieces first
RECURSIVE Pieces(_, _)
Pieces(value, length) ==
  IF length > 255 THEN Piece(value, 255) \o Pieces(value, length - 255)
  ELSE Piece(value, length)

\* the reference encoding of the input from position i on
RECURSIVE ReferenceFrom(_)
ReferenceFrom(i) ==
  IF i > Len(bytes) THEN <<>>
  ELSE Pieces(bytes[i], MaximalRun(i)) \o ReferenceFrom(i + MaximalRun(i))

\* C18: the output of rleEncode is the reference encoding: each maximal run,
\* from left to right, cut into pieces of at most 255 bytes, a piece of one
\* byte other than 0xFF written as itself, a piece of one 0xFF as
\* [0xFF, 0xFF, 0], a longer piece as [0xFF, value, length - 1]
RleEncodeReference ==
  pc = "rleEncoded" => enc = ReferenceFrom(1)

\* a run of 300 bytes 65 was written as a piece of 255 and a piece of 45
RleEncodeReferenceWitness ==
  /\ pc = "rleEncoded"
  /\ bytes = Fill(65, 300)
  /\ enc = <<255, 65, 254, 255, 65, 44>>

(* -------------------------------- rleDecode ----------------------------- *)

\* what the escape rule gives for the bytes from position i on: a 0xFF with
\* two bytes behind it stands for value repeated extra + 1 times, any other
\* byte, a 0xFF near the end included, stands for itself
RECURSIVE ExpandFrom(_)
ExpandFrom(i) ==
  IF i > Len(bytes) THEN <<>>
  ELSE IF bytes[i] = 255 /\ i + 2 <= Len(bytes)
       THEN Fill(bytes[i + 1], bytes[i + 2] + 1) \o ExpandFrom(i + 3)
       ELSE <<bytes[i]>> \o ExpandFrom(i + 1)

WrittenMeta == res.val.meta

\* the written metadata has the value under the key unless the caller gave
\* that key
DefaultFor(written, key, value) ==
  ~HasKey(args.meta, key) => Get(written, key) = value

\* C20: in the metadata serializeCompressed writes, every field the caller
\* supplied has the caller's value, a falsy one included, and each of
\* originalFilename, mimeType, originalSize, pipeline, encoding, createdAt
\* that the caller left out has its default: 'untitled',
\* 'application/octet-stream', 0, ['bwt','mtf','rle'], 'binary', the time of
\* the call
CallerFieldsOverDefaults ==
  /\ pc = "serialized" => enc.ok
  /\ pc = "parsed" =>
    /\ res.ok
    /\ LET written == WrittenMeta
       IN /\ \A i \in 1..Len(args.meta.o) :
               Get(written, args.meta.o[i].k) = args.meta.o[i].v
          /\ DefaultFor(written, K_originalFilename, Str(S_untitled))
          /\ DefaultFor(written, K_mimeType, Str(S_octetStream))
          /\ DefaultFor(written, K_originalSize, Num(0))
          /\ DefaultFor(written, K_pipeline, Arr(<<Str(S_bwt), Str(S_mtf), Str(S_rle)>>))
          /\ DefaultFor(written, K_encoding, Str(S_binary))
          /\ DefaultFor(written, K_createdAt, Str(args.now))

\* an empty file name and a size of 0 were written as the caller gave them,
\* next to the defaults of the four fields the caller left out
CallerFieldsOverDefaultsWitness ==
  /\ pc = "parsed"
  /\ args.meta = Obj(<<Prop(K_originalFilename, Str(<<>>)), Prop(K_originalSize, Num(0))>>)
  /\ Get(WrittenMeta, K_originalFilename) = Str(<<>>)
  /\ Get(WrittenMeta, K_originalSize) = Num(0)
  /\ Get(WrittenMeta, K_mimeType) = Str(S_octetStream)
  /\ Get(WrittenMeta, K_pipeline) = Arr(<<Str(S_bwt), Str(S_mtf), Str(S_rle)>>)
  /\ Get(WrittenMeta, K_encoding) = Str(S_binary)
  /\ Get(WrittenMeta, K_createdAt) = Str(args.now)

(* --------------------------- empty stage list --------------------------- *)

\* C21: decompressBytes throws for a non-empty payload when the stage list
\* of the metadata is present but empty, as it does for metadata that is
\* null or has no stage list
EmptyStageListThrows ==
  (/\ pc = "decompressed"
   /\ args.payload # <<>>
   /\ args.meta.t = "object"
   /\ StageList = Arr(<<>>)) => ~res.ok

(* ------------------------ truncated escape sequence --------------------- *)

\* C22: rleDecode drops the escape byte of a truncated escape sequence: for
\* the input [0xFF, v] the output is [v]
TruncatedEscapeDropped ==
  (pc = "rleDecodedBytes" /\ Len(bytes) = 2 /\ bytes[1] = 255)
    => res = Return(<<bytes[2]>>)

(* --------------------------- corrupted payload -------------------------- *)

\* C23: for a payload that compressBytes produced, decompressBytes with the
\* first byte changed and the metadata unchanged throws and returns no bytes
CorruptionDetected ==
  pc = "corruptedDecompressed" => ~res.ok

(* --------------------------- wrong primary index ------------------------ *)

\* C24: for every non-empty x and every index q of the array other than
\* bwtEncode(x).primaryIndex, bwtDecode(bwtEncode(x).transformed, q) raises
\* no error and returns a sequence different from x
WrongIndexGivesOtherBytes ==
  pc = "bwtDecodedWrongIndex" => res.ok /\ res.val # bytes

(* ----------------------------- total inverses --------------------------- *)

IsByteSequence(v) ==
  /\ v \in Seq(0..255)
  /\ DOMAIN v = 1..Len(v)

\* C25: for every byte sequence y and every index p of y, rleDecode(y),
\* mtfDecode(y) and bwtDecode(y, p) return a byte sequence and raise nothing,
\* and what mtfDecode and bwtDecode return is as long as y
InversesAreTotal ==
  /\ pc = "rleDecodedBytes" => res.ok /\ IsByteSequence(res.val)
  /\ pc = "mtfDecodedBytes" =>
       res.ok /\ IsByteSequence(res.val) /\ Len(res.val) = Len(bytes)
  /\ pc = "bwtDecodedBytes" =>
       res.ok /\ IsByteSequence(res.val) /\ Len(res.val) = Len(bytes)

\* [0, 1, 0] is the last column of no rotation table read at index 1: its
\* walk from 1 alternates between 1 and 2, and three bytes are returned
InversesAreTotalWitness ==
  /\ pc = "bwtDecodedBytes"
  /\ bytes = <<0, 1, 0>>
  /\ args.primaryIndex = 1
  /\ res = Return(<<0, 1, 0>>)

(* ------------------------------ mtf alphabet ---------------------------- *)

\* the alphabet of mtfEncode(bytes) and of mtfDecode(enc) after k symbols
EncodeAlphabet(k) == MtfEncodeRange(bytes, 0, k, IdentityAlphabet).alphabet

DecodeAlphabet(k) == MtfDecodeRange(enc, 0, k, IdentityAlphabet).alphabet

IsIdentityOrder(a) == Len(a) = 256 /\ \A j \in 0..255 : At(a, j) = j

IsPermutation(a) == Len(a) = 256 /\ {At(a, j) : j \in 0..255} = 0..255

\* byte is first in after, what was before it in before is one place to the
\* right, what was after it is where it was
MovedToFront(before, after, byte) ==
  LET position == CHOOSE j \in 0..255 : At(before, j) = byte
  IN /\ At(after, 0) = byte
     /\ \A j \in 0..(position - 1) : At(after, j + 1) = At(before, j)
     /\ \A j \in (position + 1)..255 : At(after, j) = At(before, j)

\* C26: in mtfEncode and in mtfDecode the alphabet is 0..255 in order when a
\* call starts, also when another call was made before, and a permutation of
\* 0..255 after every symbol; the symbol's byte is then first, the values
\* that were before it are one place to the right in the order they had and
\* the values after it are where they were; a byte equal to the byte before
\* it is encoded as 0
MtfAlphabetMoves ==
  /\ pc \in {"mtfEncoded", "mtfDecoded"} =>
       /\ IsIdentityOrder(EncodeAlphabet(0))
       /\ \A k \in 1..Len(bytes) :
            /\ IsPermutation(EncodeAlphabet(k))
            /\ MovedToFront(EncodeAlphabet(k - 1), EncodeAlphabet(k), bytes[k])
            /\ At(EncodeAlphabet(k - 1), enc[k]) = bytes[k]
       /\ \A k \in 2..Len(bytes) : bytes[k] = bytes[k - 1] => enc[k] = 0
       /\ Len(bytes) > 0 => enc[1] = bytes[1]
  /\ pc = "mtfDecoded" =>
       /\ IsIdentityOrder(DecodeAlphabet(0))
       /\ \A k \in 1..Len(enc) :
            /\ IsPermutation(DecodeAlphabet(k))
            /\ MovedToFront(DecodeAlphabet(k - 1), DecodeAlphabet(k), res.val[k])
            /\ At(DecodeAlphabet(k - 1), enc[k]) = res.val[k]
       /\ Len(enc) > 0 => res.val[1] = enc[1]

\* 65 was moved to the front from position 65, found there again, and 1 was
\* then found one place to the right of where it started
MtfAlphabetMovesWitness ==
  /\ pc = "mtfDecoded"
  /\ bytes = <<65, 65, 1>>
  /\ enc = <<65, 0, 2>>
  /\ SubSeq(DecodeAlphabet(3), 1, 4) = <<1, 65, 0, 2>>

(* ------------------------------ next mapping ---------------------------- *)

\* C27: the mapping next of bwtDecode holds, at every original index, the
\* rank of that index in the stably sorted order, for arrays of every
\* length: the ranks 0..n-1 each occur once
NextIsBijection ==
  pc = "bwtDecodedLong" =>
    LET t == args.transformed
        n == Len(t)
        ib == indexedBytes(t)
        next == nextArray(t)
    IN /\ \A i \in 0..(n - 1) : At(next, At(ib, i).index) = i
       /\ {At(next, x) : x \in 0..(n - 1)} = 0..(n - 1)

(* --------------------------------- reset -------------------------------- *)

\* C28: from a run of handleReset until the user's next submission or load,
\* compressionResult and decompressedResult are null, also when a handler
\* that was waiting at the reset resumes
ResetStaysCleared ==
  pc = "handleReset" => compressionResult = Null /\ decompressedResult = Null

(* ------------------------------ processing ------------------------------ *)

\* the call with this number is a handleInputChange or a handleDecompress
\* that is waiting
Waiting(id) ==
  \E call \in pending :
    call.id = id /\ call.handler \in {"handleInputChange", "handleDecompress"}

\* this step is the given waiting call resuming
Resumes(call) == call \in pending /\ pending' = pending \ {call}

\* C29: a call of handleInputChange or handleDecompress leaves isProcessing
\* true when it starts to wait; every such call resumes, and isProcessing is
\* false when it has, whether it succeeded or threw; a compression that
\* threw leaves compressionResult as it was, and a decompression that threw
\* leaves in decompressedResult a record with success false and the message
\* of the error
ProcessingEnds ==
  /\ [][(calls' # calls /\ pc' \in {"handleInputChange", "handleDecompress"})
          => isProcessing']_vars
  /\ [][\A call \in pending :
          (Resumes(call) /\ call.handler \in {"handleInputChange", "handleDecompress"})
            => ~isProcessing']_vars
  /\ [][\A call \in pending :
          (Resumes(call) /\ call.handler = "handleInputChange"
             /\ ~call.result.ok)
            => compressionResult' = compressionResult]_vars
  /\ [][\A call \in pending :
          (Resumes(call) /\ call.handler = "handleDecompress"
             /\ ~call.result.ok)
            => /\ decompressedResult' # Null
               /\ decompressedResult'.success = FALSE
               /\ decompressedResult'.error = call.result.err]_vars
  /\ \A id \in 1..MaxCalls : Waiting(id) ~> (~Waiting(id) /\ ~isProcessing)
  /\ isProcessing ~> ~isProcessing

\* the three bytes of no container were loaded and their decompression has
\* failed on their length; nothing is waiting
ProcessingEndsWitness ==
  /\ pc = "handleDecompress"
  /\ pending = {}
  /\ ~isProcessing
  /\ compressionResult # Null
  /\ compressionResult.blob = <<1, 2, 3>>
  /\ decompressedResult # Null
  /\ decompressedResult.success = FALSE
  /\ decompressedResult.error = TooShortError.err

(* ------------------------------ saved items ----------------------------- *)

\* the keys that were saved and not deleted afterwards
SavedKeys == {k \in StorageKeys : lastSaved[k] # NoValue}

\* C30: listSavedItems returns one entry for each key that was saved and not
\* deleted afterwards, under the key without the prefix, with the date and
\* the size of the last save, and no other entry; the entries are in the
\* order of their dates, later ones first; loadFromLocalStorage(k) returns
\* the bytes last saved under k, and fails with a load error when k was
\* never saved or was deleted
SavedItemsListedAndLoaded ==
  /\ pc = "listed" =>
       /\ res.ok
       /\ {res.val[i].key : i \in 1..Len(res.val)} = SavedKeys
       /\ Len(res.val) = Cardinality(SavedKeys)
       /\ \A i \in 1..Len(res.val) :
            /\ res.val[i].savedAt = Str(toISOString(lastSaved[res.val[i].key].savedAt))
            /\ res.val[i].size = Num(Len(lastSaved[res.val[i].key].blob))
       /\ \A i, j \in 1..Len(res.val) :
            i < j => lastSaved[res.val[i].key].savedAt >= lastSaved[res.val[j].key].savedAt
  /\ pc = "loaded" =>
       IF args.key \in SavedKeys
       THEN res.ok /\ res.val.blob = lastSaved[args.key].blob
       ELSE ~res.ok /\ res.err[1] = "Failed to load from localStorage: "

\* 'a' was saved over an entry that was no JSON text, and the prefix itself
\* was saved as a key a millisecond later; the later one is listed first
SavedItemsListedWitness ==
  /\ pc = "listed"
  /\ \E i \in 1..Len(localStorage) : localStorage[i].key = <<120>>
  /\ SavedKeys = {<<97>>, S_storagePrefix}
  /\ lastSaved[<<97>>].savedAt = 0
  /\ lastSaved[S_storagePrefix].savedAt = 1
  /\ Len(res.val) = 2
  /\ res.val[1].key = S_storagePrefix
  /\ res.val[2].key = <<97>>

====
